---- MODULE Spec2Model ----
(***************************************************************************)
(* Model of the quantitative core of ai-long-term-crypto-selector:         *)
(*   - factors/computeFactors.ts  (FactorExtractor, CrossSectionalScorer)  *)
(*   - strategy/scoring.ts        (WeightAllocator)                        *)
(* Real numbers are exact rationals [n, d] (d > 0, lowest terms); JS       *)
(* numbers that may be non-finite carry a kind tag.                        *)
(***************************************************************************)
EXTENDS Integers, Sequences, FiniteSets, TLC

VARIABLES
    pctArray,          \* getPercentile: the comparison array (finite numbers)
    pctCalls,          \* getPercentile: the calls made so far, <<value, result>>
    allAssetsFactors,  \* normalizeFactorScores: the cross-section
    rawFactors,        \* normalizeFactorScores: the asset being scored
    factorScores,      \* normalizeFactorScores: its result, NoResult before the call
    rules,             \* ScoringRules
    assetScores,       \* generateWeightAllocation: [assetId, scores] list
    targetWeights,     \* calculateTargetWeight result per list position
    allocation,        \* WeightAllocationResult, NoResult before the call
    marketData,        \* computeRawFactors: the rows findMany returned
    computed,          \* computeRawFactors: its result, NoResult before the call
    klines,            \* signalRules: the K-line series being scanned
    indicators,        \* calculateAllIndicators(klines)
    breakoutUp,        \* scanBreakoutUp result, NoResult before the call
    breakoutDown,      \* scanBreakoutDown result, NoResult before the call
    retestLong,        \* scanRetestLong result, NoResult before the call
    retestShort,       \* scanRetestShort result, NoResult before the call
    technicalSignals,  \* prisma.technicalSignal rows of one (asset, timeframe)
    lastScan,          \* what the last scanAssetTimeframe run found and did
    factorSnapshots,   \* prisma.factorSnapshot rows of the suggestion date
    portfolioSuggestions, \* prisma.portfolioSuggestion rows of that date
    suggestionResult,  \* generatePortfolioSuggestion result, NoResult before
    chat,              \* DeepSeekClient.chat: one call's position in the retry loop
    updater,           \* updateData: position in the asset loop and its event log
    scanners,          \* scanAssetTimeframe invocations in flight, per invocation
    report             \* generateReport: the portfolio it holds and what it wrote

vars == <<pctArray, pctCalls, allAssetsFactors, rawFactors, factorScores,
          rules, assetScores, targetWeights, allocation, marketData, computed,
          klines, indicators, breakoutUp, breakoutDown, retestLong, retestShort,
          technicalSignals, lastScan,
          factorSnapshots, portfolioSuggestions, suggestionResult,
          chat, updater, scanners, report>>

----
\* Bounds of the model

MaxVal == 2
MaxArrayLen == 3
MaxAssets == 2
MaxBands == 2
\* FactorCalculationParams, scaled down from 90 / 180 / 365 / 30 days
WindowShort == 1
WindowMedium == 2
WindowLong == 3
LiquidityWindow == 2
\* Longest series of daily rows, and the number of price levels above 0
MaxDays == 5
MaxPriceSteps == 2

NoResult == [none |-> TRUE]

----
\* Exact rational arithmetic

Abs(x) == IF x < 0 THEN -x ELSE x

RECURSIVE GCD(_, _)
GCD(a, b) == IF b = 0 THEN a ELSE GCD(b, a % b)

Rat(n, d) ==
    LET s == IF d < 0 THEN -1 ELSE 1
        g == GCD(Abs(n), Abs(d))
    IN [n |-> (s * n) \div g, d |-> (s * d) \div g]

RInt(i) == [n |-> i, d |-> 1]
RAdd(a, b) == Rat(a.n * b.d + b.n * a.d, a.d * b.d)
RSub(a, b) == Rat(a.n * b.d - b.n * a.d, a.d * b.d)
RMul(a, b) == Rat(a.n * b.n, a.d * b.d)
RDiv(a, b) == Rat(a.n * b.d, a.d * b.n)
RLe(a, b) == a.n * b.d <= b.n * a.d
RLt(a, b) == a.n * b.d < b.n * a.d
RMin(a, b) == IF RLe(a, b) THEN a ELSE b
RMax(a, b) == IF RLe(a, b) THEN b ELSE a

RECURSIVE RSum(_)
RSum(s) == IF s = <<>> THEN RInt(0) ELSE RAdd(Head(s), RSum(Tail(s)))

----
\* JS numbers: finite (an integer sample), NaN, +Infinity, -Infinity

Num(i) == [k |-> "num", v |-> i]
NaN == [k |-> "nan", v |-> 0]
PosInf == [k |-> "inf", v |-> 0]
NegInf == [k |-> "ninf", v |-> 0]

FiniteVals == 0..MaxVal
JsValues == {Num(i) : i \in FiniteVals} \cup {NaN, PosInf, NegInf}

\* !isNaN(v) && isFinite(v)
IsFiniteNumber(x) == x.k = "num"

\* a >= b and a <= b for a finite a and any JS number b (IEEE comparisons)
FinGe(a, b) ==
    CASE b.k = "num" -> a >= b.v
      [] b.k = "ninf" -> TRUE
      [] OTHER -> FALSE

\* b <= a and b >= a for any JS number b and a finite a
JsLe(b, a) == FinGe(a, b)
JsGe(b, a) ==
    CASE b.k = "num" -> b.v >= a
      [] b.k = "inf" -> TRUE
      [] OTHER -> FALSE

----
\* getPercentile

RECURSIVE Insert(_, _)
Insert(x, s) ==
    IF s = <<>> THEN <<x>>
    ELSE IF x <= Head(s) THEN <<x>> \o s
    ELSE <<Head(s)>> \o Insert(x, Tail(s))

\* [...array].sort((a, b) => a - b)
RECURSIVE SortAsc(_)
SortAsc(s) == IF s = <<>> THEN <<>> ELSE Insert(Head(s), SortAsc(Tail(s)))

\* sorted.findIndex((v) => v >= value): 0-based, -1 when no element qualifies
FindIndexGe(sorted, value) ==
    LET hits == {i \in 1..Len(sorted) : FinGe(sorted[i], value)}
    IN IF hits = {} THEN -1
       ELSE (CHOOSE i \in hits : \A j \in hits : i <= j) - 1

\* getPercentile with the interpolation ratio measured from the upper neighbour
getPercentileFlipped(value, array) ==
    IF Len(array) = 0 THEN Rat(1, 2)
    ELSE IF Len(array) = 1 THEN (IF JsGe(value, array[1]) THEN RInt(1) ELSE RInt(0))
    ELSE
      LET sorted == SortAsc(array)
          index == FindIndexGe(sorted, value)
      IN IF index = -1 THEN RInt(1)
         ELSE IF index = 0
           THEN (IF JsLe(value, sorted[1]) THEN RInt(0) ELSE Rat(1, 100))
         ELSE
           LET lower == sorted[index]
               upper == sorted[index + 1]
           IN IF upper = lower THEN Rat(index, Len(sorted))
              ELSE LET ratio == Rat(upper - value.v, upper - lower)
                   IN RDiv(RAdd(RInt(index - 1), ratio), RInt(Len(sorted)))

\* getPercentile ranking a value at its own position (index instead of index - 1)
getPercentileRankInclusive(value, array) ==
    IF Len(array) = 0 THEN Rat(1, 2)
    ELSE IF Len(array) = 1 THEN (IF JsGe(value, array[1]) THEN RInt(1) ELSE RInt(0))
    ELSE
      LET sorted == SortAsc(array)
          index == FindIndexGe(sorted, value)
      IN IF index = -1 THEN RInt(1)
         ELSE IF index = 0
           THEN (IF JsLe(value, sorted[1]) THEN RInt(0) ELSE Rat(1, 100))
         ELSE
           LET lower == sorted[index]
               upper == sorted[index + 1]
           IN IF upper = lower THEN Rat(index, Len(sorted))
              ELSE LET ratio == Rat(value.v - lower, upper - lower)
                   IN RDiv(RAdd(RInt(index), ratio), RInt(Len(sorted)))

\* getPercentile returning the 0.01 floor for a finite value at index 0
getPercentileMinFloor(value, array) ==
    IF Len(array) = 0 THEN Rat(1, 2)
    ELSE IF Len(array) = 1 THEN (IF JsGe(value, array[1]) THEN RInt(1) ELSE RInt(0))
    ELSE
      LET sorted == SortAsc(array)
          index == FindIndexGe(sorted, value)
      IN IF index = -1 THEN RInt(1)
         ELSE IF index = 0
           THEN (IF JsLe(value, sorted[1]) /\ value.k # "num" THEN RInt(0) ELSE Rat(1, 100))
         ELSE
           LET lower == sorted[index]
               upper == sorted[index + 1]
           IN IF upper = lower THEN Rat(index, Len(sorted))
              ELSE LET ratio == Rat(value.v - lower, upper - lower)
                   IN RDiv(RAdd(RInt(index - 1), ratio), RInt(Len(sorted)))

getPercentile(value, array) ==
    IF Len(array) = 0 THEN Rat(1, 2)
    ELSE IF Len(array) = 1 THEN (IF JsGe(value, array[1]) THEN RInt(1) ELSE RInt(0))
    ELSE
      LET sorted == SortAsc(array)
          index == FindIndexGe(sorted, value)
      IN IF index = -1 THEN RInt(1)
         ELSE IF index = 0
           THEN (IF JsLe(value, sorted[1]) THEN RInt(0) ELSE Rat(1, 100))
         ELSE
           LET lower == sorted[index]
               upper == sorted[index + 1]
           IN IF upper = lower THEN Rat(index, Len(sorted))
              ELSE LET ratio == Rat(value.v - lower, upper - lower)
                   IN RDiv(RAdd(RInt(index - 1), ratio), RInt(Len(sorted)))

----
\* Sequences of bounded length

SeqsUpTo(S, n) == UNION {[1..m -> S] : m \in 0..n}

IdlePercentile == pctArray = <<>> /\ pctCalls = {}
IdleScoring == allAssetsFactors = <<>> /\ rawFactors = NoResult /\ factorScores = NoResult
IdleWeights ==
    rules = NoResult /\ assetScores = <<>> /\ targetWeights = <<>> /\ allocation = NoResult
IdleExtract == marketData = <<>> /\ computed = NoResult
IdleSignals ==
    /\ klines = <<>> /\ indicators = NoResult
    /\ breakoutUp = NoResult /\ breakoutDown = NoResult
    /\ retestLong = NoResult /\ retestShort = NoResult
IdleStore == technicalSignals = <<>> /\ lastScan = NoResult
IdlePortfolio ==
    factorSnapshots = <<>> /\ portfolioSuggestions = <<>> /\ suggestionResult = NoResult
IdleTA == IdleSignals /\ IdleStore /\ IdlePortfolio
IdleChat == chat = NoResult
IdleUpdater == updater = NoResult
IdleScanners == scanners = NoResult
IdleReport == report = NoResult
IdleScripts == IdleChat /\ IdleUpdater /\ IdleScanners /\ IdleReport

----
\* Specification of getPercentile: one fixed comparison array, any number of calls

InitPercentile ==
    /\ IdleScripts
    /\ pctArray \in SeqsUpTo(FiniteVals, MaxArrayLen)
    /\ pctCalls = {}
    /\ IdleScoring /\ IdleWeights /\ IdleExtract /\ IdleTA

CallGetPercentile ==
    \E value \in JsValues :
        /\ pctCalls' = pctCalls \cup {<<value, getPercentile(value, pctArray)>>}
        /\ UNCHANGED <<pctArray, allAssetsFactors, rawFactors, factorScores, rules,
                       assetScores, targetWeights, allocation, marketData, computed,
                   klines, indicators, breakoutUp, breakoutDown, retestLong,
                   retestShort, technicalSignals, lastScan, factorSnapshots,
                   portfolioSuggestions, suggestionResult,
                   chat, updater, scanners, report>>

NextPercentile == CallGetPercentile

SpecPercentile == InitPercentile /\ [][NextPercentile]_vars

----
\* Properties of getPercentile

Elems(s) == {s[i] : i \in DOMAIN s}
ArrayMax(s) == CHOOSE x \in Elems(s) : \A y \in Elems(s) : y <= x
ArrayMin(s) == CHOOSE x \in Elems(s) : \A y \in Elems(s) : x <= y
TwoDistinct(s) == Cardinality(Elems(s)) >= 2
CountBelow(s, x) == Cardinality({i \in DOMAIN s : s[i] < x})

\* a <= b on JS numbers (false when either side is NaN)
JsLeq(a, b) ==
    /\ a.k # "nan" /\ b.k # "nan"
    /\ \/ a.k = "ninf"
       \/ b.k = "inf"
       \/ a.k = "num" /\ b.k = "num" /\ a.v <= b.v

\* C2 as stated: with at least 2 distinct values in the array, getPercentile
\* of the array maximum is exactly 1.
C2_MaxIsOne ==
    TwoDistinct(pctArray) =>
        \A c \in pctCalls : c[1] = Num(ArrayMax(pctArray)) => c[2] = RInt(1)

\* C2 amended: with at least 2 distinct values, getPercentile of the array
\* maximum is (number of elements strictly below the maximum) / (array size),
\* which is below 1; exactly 1 is returned for every value strictly above the
\* maximum (and for NaN, which no element is >= to).
C2_MaxIsRankBelow ==
    TwoDistinct(pctArray) =>
        \A c \in pctCalls :
            /\ c[1] = Num(ArrayMax(pctArray)) =>
                   c[2] = Rat(CountBelow(pctArray, ArrayMax(pctArray)), Len(pctArray))
            /\ JsLeq(c[1], Num(ArrayMax(pctArray))) => RLt(c[2], RInt(1))
            /\ ~JsLeq(c[1], Num(ArrayMax(pctArray))) => c[2] = RInt(1)

C2_Witness ==
    /\ TwoDistinct(pctArray)
    /\ \E c \in pctCalls : c[1] = Num(ArrayMax(pctArray)) /\ c[2] = Rat(2, 3)
    /\ \E c \in pctCalls : c[1] = PosInf

\* C3: with at least 2 distinct values, getPercentile of every value less than
\* or equal to the array minimum (the minimum itself, -Infinity) is exactly 0,
\* and 0.01 is returned by no call at all.
C3_MinIsZero ==
    TwoDistinct(pctArray) =>
        \A c \in pctCalls :
            /\ JsLeq(c[1], Num(ArrayMin(pctArray))) => c[2] = RInt(0)
            /\ c[2] # Rat(1, 100)

C3_Witness ==
    /\ TwoDistinct(pctArray)
    /\ \E c \in pctCalls : c[1] = Num(ArrayMin(pctArray)) /\ c[2] = RInt(0)
    /\ \E c \in pctCalls : c[1] = NegInf /\ c[2] = RInt(0)

\* C4: for a fixed array (any size, duplicates allowed), v1 <= v2 implies
\* getPercentile(v1, array) <= getPercentile(v2, array).
C4_Monotonic ==
    \A c1 \in pctCalls : \A c2 \in pctCalls :
        JsLeq(c1[1], c2[1]) => RLe(c1[2], c2[2])

C4_Witness ==
    /\ Len(pctArray) = 3 /\ Cardinality(Elems(pctArray)) = 2
    /\ \E c1 \in pctCalls : \E c2 \in pctCalls :
          /\ c1[1].k = "num" /\ c2[1].k = "num" /\ c1[1].v < c2[1].v
          /\ RLt(RInt(0), c1[2]) /\ RLt(c1[2], c2[2]) /\ RLt(c2[2], RInt(1))
          /\ c1[1].v \notin Elems(pctArray)

----
\* CrossSectionalScorer: normalizeFactorScores and the four sub-scores

\* Sample of factor values: two finite levels and the three non-finite values
FactorVals == {Num(0), Num(1), NaN, PosInf, NegInf}

\* A RawFactors record (factorDefinitions.ts) built from two free values
RawFactorsOf(a, b) ==
    [logMarketCap |-> a, fdvToMarketCapRatio |-> b, priceToHigh365d |-> a,
     return90d |-> a, return180d |-> b, return365d |-> a,
     volatility90d |-> a, volatility180d |-> b,
     volumeToMarketCapRatio |-> a, avgDailyVolume30d |-> b,
     volatility365d |-> b, maxDrawdown365d |-> a]

\* The sampled records: at most one of the two free values is non-finite
RawFactorsSet ==
    {RawFactorsOf(p[1], p[2]) :
        p \in {q \in FactorVals \X FactorVals :
                  IsFiniteNumber(q[1]) \/ IsFiniteNumber(q[2])}}

\* allFactors.map((f) => f.<field>).filter((v) => !isNaN(v) && isFinite(v))
RECURSIVE FiniteColumn(_, _)
FiniteColumn(allFactors, field) ==
    IF allFactors = <<>> THEN <<>>
    ELSE LET x == Head(allFactors)[field]
             rest == FiniteColumn(Tail(allFactors), field)
         IN IF IsFiniteNumber(x) THEN <<x.v>> \o rest ELSE rest

Pct(factors, allFactors, field) ==
    getPercentile(factors[field], FiniteColumn(allFactors, field))

OneMinus(p) == RSub(RInt(1), p)

calculateValuationScore(factors, allFactors) ==
    IF Len(allFactors) = 0 THEN Rat(5, 2)
    ELSE LET logMarketCapPercentile == Pct(factors, allFactors, "logMarketCap")
             fdvRatioPercentile == OneMinus(Pct(factors, allFactors, "fdvToMarketCapRatio"))
             priceToHighPercentile == Pct(factors, allFactors, "priceToHigh365d")
         IN RMul(RSum(<<RMul(logMarketCapPercentile, Rat(3, 10)),
                         RMul(fdvRatioPercentile, Rat(3, 10)),
                         RMul(priceToHighPercentile, Rat(4, 10))>>), RInt(5))

\* calculateMomentumScore with weights 0.7 / 0.4, which do not sum to 1
calculateMomentumScoreOverweight(factors, allFactors) ==
    IF Len(allFactors) = 0 THEN Rat(5, 2)
    ELSE LET returnPercentile == Pct(factors, allFactors, "return365d")
             volatilityPercentile == OneMinus(Pct(factors, allFactors, "volatility180d"))
         IN RMul(RAdd(RMul(returnPercentile, Rat(7, 10)),
                      RMul(volatilityPercentile, Rat(4, 10))), RInt(5))

calculateMomentumScore(factors, allFactors) ==
    IF Len(allFactors) = 0 THEN Rat(5, 2)
    ELSE LET returnPercentile == Pct(factors, allFactors, "return365d")
             volatilityPercentile == OneMinus(Pct(factors, allFactors, "volatility180d"))
         IN RMul(RAdd(RMul(returnPercentile, Rat(7, 10)),
                      RMul(volatilityPercentile, Rat(3, 10))), RInt(5))

calculateLiquidityScore(factors, allFactors) ==
    IF Len(allFactors) = 0 THEN Rat(5, 2)
    ELSE LET volumeRatioPercentile == Pct(factors, allFactors, "volumeToMarketCapRatio")
             avgVolumePercentile == Pct(factors, allFactors, "avgDailyVolume30d")
         IN RMul(RAdd(RMul(volumeRatioPercentile, Rat(5, 10)),
                      RMul(avgVolumePercentile, Rat(5, 10))), RInt(5))

\* calculateRiskScore returning the neutral 2.5 for a single-asset cross-section too
calculateRiskScoreNeutralSingleton(factors, allFactors) ==
    IF Len(allFactors) <= 1 THEN Rat(5, 2)
    ELSE LET volatilityPercentile == OneMinus(Pct(factors, allFactors, "volatility365d"))
             drawdownPercentile == OneMinus(Pct(factors, allFactors, "maxDrawdown365d"))
         IN RMul(RAdd(RMul(volatilityPercentile, Rat(5, 10)),
                      RMul(drawdownPercentile, Rat(5, 10))), RInt(5))

calculateRiskScore(factors, allFactors) ==
    IF Len(allFactors) = 0 THEN Rat(5, 2)
    ELSE LET volatilityPercentile == OneMinus(Pct(factors, allFactors, "volatility365d"))
             drawdownPercentile == OneMinus(Pct(factors, allFactors, "maxDrawdown365d"))
         IN RMul(RAdd(RMul(volatilityPercentile, Rat(5, 10)),
                      RMul(drawdownPercentile, Rat(5, 10))), RInt(5))

normalizeFactorScores(factors, allFactors) ==
    LET valuationScore == calculateValuationScore(factors, allFactors)
        momentumScore == calculateMomentumScore(factors, allFactors)
        liquidityScore == calculateLiquidityScore(factors, allFactors)
        riskScore == calculateRiskScore(factors, allFactors)
        totalScore == RSum(<<RMul(valuationScore, Rat(25, 100)),
                             RMul(momentumScore, Rat(30, 100)),
                             RMul(liquidityScore, Rat(20, 100)),
                             RMul(riskScore, Rat(25, 100))>>)
    IN [valuationScore |-> valuationScore,
        momentumScore |-> momentumScore,
        liquidityScore |-> liquidityScore,
        riskScore |-> riskScore,
        totalScore |-> RMin(RInt(5), RMax(RInt(0), totalScore))]

InitScoring ==
    /\ IdleScripts
    /\ allAssetsFactors \in SeqsUpTo(RawFactorsSet, MaxAssets)
    /\ rawFactors \in RawFactorsSet
    /\ factorScores = NoResult
    /\ IdlePercentile /\ IdleWeights /\ IdleExtract /\ IdleTA

CallNormalizeFactorScores ==
    /\ factorScores = NoResult
    /\ factorScores' = normalizeFactorScores(rawFactors, allAssetsFactors)
    /\ UNCHANGED <<pctArray, pctCalls, allAssetsFactors, rawFactors, rules,
                   assetScores, targetWeights, allocation, marketData, computed,
                   klines, indicators, breakoutUp, breakoutDown, retestLong,
                   retestShort, technicalSignals, lastScan, factorSnapshots,
                   portfolioSuggestions, suggestionResult,
                   chat, updater, scanners, report>>

NextScoring == CallNormalizeFactorScores

SpecScoring == InitScoring /\ [][NextScoring]_vars

InScoreRange(x) == RLe(RInt(0), x) /\ RLe(x, RInt(5))

SubScores(fs) == <<fs.valuationScore, fs.momentumScore, fs.liquidityScore, fs.riskScore>>

HasNonFinite(f) == \E field \in DOMAIN f : ~IsFiniteNumber(f[field])

\* C1: for every cross-section (possibly empty, possibly holding non-finite
\* values) and every scored asset, the four sub-scores and the total score
\* returned by normalizeFactorScores lie within [0, 5].
C1_ScoresInRange ==
    factorScores # NoResult =>
        /\ \A i \in 1..4 : InScoreRange(SubScores(factorScores)[i])
        /\ InScoreRange(factorScores.totalScore)

C1_Witness ==
    /\ factorScores # NoResult
    /\ Len(allAssetsFactors) = 2
    /\ \E i \in 1..2 : HasNonFinite(allAssetsFactors[i])
    /\ \E i \in 1..2 : ~HasNonFinite(allAssetsFactors[i])
    /\ factorScores.valuationScore = RInt(5)
    /\ factorScores.riskScore = Rat(5, 2)
    /\ RLt(RInt(0), factorScores.totalScore) /\ RLt(factorScores.totalScore, RInt(5))

\* C5 as stated: with an empty or single-asset cross-section each of the four
\* sub-scores is 2.5.
C5_NeutralUpToOneAsset ==
    (factorScores # NoResult /\ Len(allAssetsFactors) <= 1) =>
        \A i \in 1..4 : SubScores(factorScores)[i] = Rat(5, 2)

\* C5 amended: with an empty cross-section each of the four sub-scores is 2.5.
\* With a single-asset cross-section every percentile is 1 when the scored
\* value is >= that asset's value and 0 otherwise (0.5 only when that asset's
\* value is non-finite), so the sub-scores are not 2.5 in general: an asset
\* scored against a cross-section holding only itself, all factors finite,
\* gets valuation 3.5, momentum 3.5, liquidity 5 and risk 0.
C5_NeutralOnlyWhenEmpty ==
    factorScores # NoResult =>
        /\ Len(allAssetsFactors) = 0 =>
               \A i \in 1..4 : SubScores(factorScores)[i] = Rat(5, 2)
        /\ Len(allAssetsFactors) = 1 =>
               LET only == allAssetsFactors[1]
                   \* tenths of the percentile of one field against the one asset
                   P(field) == IF ~IsFiniteNumber(only[field]) THEN 5
                               ELSE IF JsGe(rawFactors[field], only[field].v) THEN 10
                               ELSE 0
               IN SubScores(factorScores) =
                    <<Rat(5 * (3 * P("logMarketCap") + 3 * (10 - P("fdvToMarketCapRatio"))
                               + 4 * P("priceToHigh365d")), 100),
                      Rat(5 * (7 * P("return365d") + 3 * (10 - P("volatility180d"))), 100),
                      Rat(5 * (5 * P("volumeToMarketCapRatio") + 5 * P("avgDailyVolume30d")), 100),
                      Rat(5 * (5 * (10 - P("volatility365d"))
                               + 5 * (10 - P("maxDrawdown365d"))), 100)>>
        /\ (Len(allAssetsFactors) = 1 /\ allAssetsFactors[1] = rawFactors
              /\ ~HasNonFinite(rawFactors)) =>
               SubScores(factorScores) = <<Rat(7, 2), Rat(7, 2), RInt(5), RInt(0)>>

C5_Witness ==
    /\ factorScores # NoResult
    /\ Len(allAssetsFactors) = 1 /\ allAssetsFactors[1] = rawFactors
    /\ ~HasNonFinite(rawFactors)
    /\ factorScores.riskScore = RInt(0)

----
\* WeightAllocator (strategy/scoring.ts)

Undefined == [undefined |-> TRUE]

\* Samples the rules and scores are drawn from
ScoreLevels == {RInt(0), RInt(1), RInt(2)}
BandMinScores == {RInt(0), RInt(1)}
BandTargetWeights == {Rat(-1, 2), Rat(1, 4), RInt(1)}
MinWeightThresholds == {RInt(-1), Rat(1, 2)}

\* One entry of ScoringRules.weightThresholds: maxScore absent, or minScore + 1
Bands ==
    {[minScore |-> lo, maxScore |-> hi, targetWeight |-> w] :
        lo \in BandMinScores, hi \in {Undefined}, w \in BandTargetWeights}
    \cup
    {[minScore |-> lo, maxScore |-> RAdd(lo, RInt(1)), targetWeight |-> w] :
        lo \in BandMinScores, w \in BandTargetWeights}

ScoringRulesSet ==
    {[weightThresholds |-> th, allowNegativeWeights |-> neg, minWeightThreshold |-> m] :
        th \in SeqsUpTo(Bands, MaxBands), neg \in BOOLEAN, m \in MinWeightThresholds}

\* The body of the for loop of calculateTargetWeight for one threshold
BandMatches(threshold, totalScore) ==
    /\ RLe(threshold.minScore, totalScore)
    /\ (threshold.maxScore = Undefined \/ RLt(totalScore, threshold.maxScore))

BandWeight(threshold, r) ==
    LET w1 == IF ~r.allowNegativeWeights /\ RLt(threshold.targetWeight, RInt(0))
              THEN RInt(0) ELSE threshold.targetWeight
    IN IF RLt(w1, r.minWeightThreshold) THEN RInt(0) ELSE w1

RECURSIVE ScanThresholds(_, _, _)
ScanThresholds(thresholds, totalScore, r) ==
    IF thresholds = <<>> THEN RInt(0)
    ELSE IF BandMatches(Head(thresholds), totalScore)
         THEN BandWeight(Head(thresholds), r)
         ELSE ScanThresholds(Tail(thresholds), totalScore, r)

\* The scan run from the last threshold to the first (last match wins)
RECURSIVE ScanThresholdsLastMatch(_, _, _)
ScanThresholdsLastMatch(thresholds, totalScore, r) ==
    IF thresholds = <<>> THEN RInt(0)
    ELSE IF BandMatches(thresholds[Len(thresholds)], totalScore)
         THEN BandWeight(thresholds[Len(thresholds)], r)
         ELSE ScanThresholdsLastMatch(SubSeq(thresholds, 1, Len(thresholds) - 1),
                                      totalScore, r)

calculateTargetWeightLastMatch(scores, r) ==
    ScanThresholdsLastMatch(r.weightThresholds, scores.totalScore, r)

calculateTargetWeight(scores, r) ==
    ScanThresholds(r.weightThresholds, scores.totalScore, r)

\* A Map<string, number> as its entries <<key, value>> in insertion order
MapValues(m) == [i \in DOMAIN m |-> m[i][2]]
MapKeys(m) == {m[i][1] : i \in DOMAIN m}
MapGet(m, k) == (CHOOSE i \in DOMAIN m : m[i][1] = k)
MapSet(m, k, v) ==
    IF k \in MapKeys(m)
    THEN [i \in DOMAIN m |-> IF m[i][1] = k THEN <<k, v>> ELSE m[i]]
    ELSE Append(m, <<k, v>>)

\* normalizeWeights without the scaling branch
normalizeWeightsNoScale(assetWeights, maxTotalWeight) ==
    [assetWeights |-> assetWeights,
     totalWeight |-> RSum(MapValues(assetWeights)),
     adjustedWeights |-> assetWeights]

\* normalizeWeights scaling only the first entry
normalizeWeightsScaleFirst(assetWeights, maxTotalWeight) ==
    LET totalWeight == RSum(MapValues(assetWeights))
        scale == RDiv(maxTotalWeight, totalWeight)
    IN [assetWeights |-> assetWeights,
        totalWeight |-> totalWeight,
        adjustedWeights |->
            IF RLt(maxTotalWeight, totalWeight)
            THEN [i \in DOMAIN assetWeights |->
                    <<assetWeights[i][1],
                      IF i = 1 THEN RMul(assetWeights[i][2], scale)
                      ELSE assetWeights[i][2]>>]
            ELSE assetWeights]

normalizeWeights(assetWeights, maxTotalWeight) ==
    LET totalWeight == RSum(MapValues(assetWeights))
        scale == RDiv(maxTotalWeight, totalWeight)
    IN [assetWeights |-> assetWeights,
        totalWeight |-> totalWeight,
        adjustedWeights |->
            IF RLt(maxTotalWeight, totalWeight)
            THEN [i \in DOMAIN assetWeights |->
                    <<assetWeights[i][1], RMul(assetWeights[i][2], scale)>>]
            ELSE assetWeights]

\* The for loop of generateWeightAllocation over assetScores[1..n]
RECURSIVE CollectWeights(_, _, _)
CollectWeights(list, n, r) ==
    IF n = 0 THEN <<>>
    ELSE LET before == CollectWeights(list, n - 1, r)
             weight == calculateTargetWeight(list[n].scores, r)
         IN IF RLt(RInt(0), weight) THEN MapSet(before, list[n].assetId, weight)
            ELSE before

\* The loop without the weight > 0 test
RECURSIVE CollectWeightsKeepAll(_, _, _)
CollectWeightsKeepAll(list, n, r) ==
    IF n = 0 THEN <<>>
    ELSE MapSet(CollectWeightsKeepAll(list, n - 1, r), list[n].assetId,
                calculateTargetWeight(list[n].scores, r))

generateWeightAllocationKeepAll(list, r) ==
    normalizeWeights(CollectWeightsKeepAll(list, Len(list), r), RInt(1))

generateWeightAllocation(list, r) ==
    normalizeWeights(CollectWeights(list, Len(list), r), RInt(1))

AssetScoresOf(levels) ==
    [i \in DOMAIN levels |-> [assetId |-> i, scores |-> [totalScore |-> levels[i]]]]

InitWeights ==
    /\ IdleScripts
    /\ rules \in ScoringRulesSet
    /\ assetScores \in {AssetScoresOf(l) : l \in SeqsUpTo(ScoreLevels, MaxAssets)}
    /\ targetWeights = <<>>
    /\ allocation = NoResult
    /\ IdlePercentile /\ IdleScoring /\ IdleExtract /\ IdleTA

\* generatePortfolioSuggestion's use: one allocation over the list, and
\* calculateTargetWeight once more per asset
CallGenerateWeightAllocation ==
    /\ allocation = NoResult
    /\ allocation' = generateWeightAllocation(assetScores, rules)
    /\ targetWeights' =
           [i \in DOMAIN assetScores |-> calculateTargetWeight(assetScores[i].scores, rules)]
    /\ UNCHANGED <<pctArray, pctCalls, allAssetsFactors, rawFactors, factorScores,
                   rules, assetScores, marketData, computed,
                   klines, indicators, breakoutUp, breakoutDown, retestLong,
                   retestShort, technicalSignals, lastScan, factorSnapshots,
                   portfolioSuggestions, suggestionResult,
                   chat, updater, scanners, report>>

NextWeights == CallGenerateWeightAllocation

SpecWeights == InitWeights /\ [][NextWeights]_vars

----
\* Properties of the WeightAllocator

Allocated == allocation # NoResult

\* Index of the first band matching totalScore, 0 when none does
FirstMatch(thresholds, totalScore) ==
    LET hits == {i \in DOMAIN thresholds : BandMatches(thresholds[i], totalScore)}
    IN IF hits = {} THEN 0 ELSE CHOOSE i \in hits : \A j \in hits : i <= j

\* C6: the adjusted weights returned by generateWeightAllocation sum to at
\* most the cap 1.0, and every asset of the result has a strictly positive
\* target weight and adjusted weight (assets with target weight 0 are dropped).
C6_SumWithinCapAllPositive ==
    Allocated =>
        /\ RLe(RSum(MapValues(allocation.adjustedWeights)), RInt(1))
        /\ \A i \in DOMAIN allocation.adjustedWeights :
              /\ RLt(RInt(0), allocation.adjustedWeights[i][2])
              /\ RLt(RInt(0), allocation.assetWeights[i][2])
        /\ MapKeys(allocation.adjustedWeights) =
              {i \in DOMAIN assetScores : RLt(RInt(0), targetWeights[i])}

C6_Witness ==
    /\ Allocated
    /\ Len(assetScores) = 2
    /\ Len(allocation.adjustedWeights) = 1
    /\ RLt(targetWeights[1], RInt(0))
    /\ allocation.adjustedWeights[1] = <<2, RInt(1)>>

\* C7: normalizeWeights scales every asset by one common factor s, with s = 1
\* (adjusted = target) when the sum of target weights is <= cap and
\* s = cap / sum otherwise, so the ratio between any two assets' weights is
\* the same before and after.
C7_CommonScale ==
    Allocated =>
        LET tgt == allocation.assetWeights
            adj == allocation.adjustedWeights
            sum == RSum(MapValues(tgt))
            s == IF RLe(sum, RInt(1)) THEN RInt(1) ELSE RDiv(RInt(1), sum)
        IN /\ allocation.totalWeight = sum
           /\ DOMAIN adj = DOMAIN tgt
           /\ \A i \in DOMAIN tgt :
                 /\ adj[i][1] = tgt[i][1]
                 /\ adj[i][2] = RMul(tgt[i][2], s)
           /\ \A i \in DOMAIN tgt : \A j \in DOMAIN tgt :
                 RMul(adj[i][2], tgt[j][2]) = RMul(adj[j][2], tgt[i][2])

C7_Witness ==
    /\ Allocated
    /\ allocation.totalWeight = Rat(5, 4)
    /\ MapValues(allocation.assetWeights) = <<Rat(1, 4), RInt(1)>>
    /\ MapValues(allocation.adjustedWeights) = <<Rat(1, 5), Rat(4, 5)>>

\* C8: calculateTargetWeight returns the weight of the first band, in the
\* order given in rules.weightThresholds, with minScore <= totalScore < maxScore
\* (no upper bound when maxScore is absent), even when a later band also
\* matches, and 0 when no band matches.  The band's weight is its targetWeight
\* after the two adjustments of lines 54-61 (negative -> 0 when negative
\* weights are disallowed, below minWeightThreshold -> 0).
C8_FirstBandWins ==
    Allocated =>
        \A i \in DOMAIN assetScores :
            LET totalScore == assetScores[i].scores.totalScore
                k == FirstMatch(rules.weightThresholds, totalScore)
                t == rules.weightThresholds[k].targetWeight
            IN IF k = 0 THEN targetWeights[i] = RInt(0)
               ELSE targetWeights[i] =
                      (IF (~rules.allowNegativeWeights /\ RLt(t, RInt(0)))
                          \/ RLt(t, rules.minWeightThreshold)
                       THEN RInt(0) ELSE t)

C8_Witness ==
    /\ Allocated
    /\ Len(rules.weightThresholds) = 2
    /\ Len(assetScores) = 2
    /\ \A k \in 1..2 : BandMatches(rules.weightThresholds[k], assetScores[1].scores.totalScore)
    /\ rules.weightThresholds[1].targetWeight = Rat(1, 4)
    /\ rules.weightThresholds[2].targetWeight = RInt(1)
    /\ targetWeights[1] = Rat(1, 4)
    /\ FirstMatch(rules.weightThresholds, assetScores[2].scores.totalScore) = 0
    /\ targetWeights[2] = RInt(0)

----
\* FactorExtractor (computeFactors.ts): computeRawFactors and its helpers

\* The annualisation factor of calculateVolatility, Math.sqrt(365)
DaysPerYear == 365

Null == [null |-> TRUE]

\* Math.sqrt(x) and Math.log(x), kept symbolic; Sqrt(0) is the number 0
Sqrt(x) == [sqrt |-> x]
Ln(x) == [ln |-> x]

FactorParams ==
    [returnWindows |-> [short |-> WindowShort, medium |-> WindowMedium, long |-> WindowLong],
     volatilityWindows |-> [short |-> WindowShort, medium |-> WindowMedium, long |-> WindowLong],
     liquidityWindow |-> LiquidityWindow]

\* Prices a row may hold: 0 and multiples of 50
PriceLevels == {0} \cup {50 * k : k \in 1..MaxPriceSteps}

\* The optional columns of a row; 0 stands for null as well, which the code
\* treats alike (d.high || d.price, latestData.marketCap || 0, d.volume || 0)
RowExtras ==
    {[highOver |-> h, marketCap |-> m, fdv |-> f, volume |-> v] :
        h \in {0, 50}, m \in {0, 100}, f \in {0, 300}, v \in {0, 10}}

RowsOf(prices, x) ==
    [i \in DOMAIN prices |->
        [price |-> prices[i],
         high |-> IF x.highOver = 0 THEN 0 ELSE prices[i] + x.highOver,
         marketCap |-> x.marketCap, fdv |-> x.fdv, volume |-> x.volume]]

\* array.slice(-n)
SliceLast(s, n) == IF Len(s) <= n THEN s ELSE SubSeq(s, Len(s) - n + 1, Len(s))

\* array.filter((p) => p > 0)
RECURSIVE FilterPositive(_)
FilterPositive(s) ==
    IF s = <<>> THEN <<>>
    ELSE IF Head(s) > 0 THEN <<Head(s)>> \o FilterPositive(Tail(s))
    ELSE FilterPositive(Tail(s))

RECURSIVE IntSum(_)
IntSum(s) == IF s = <<>> THEN 0 ELSE Head(s) + IntSum(Tail(s))

SeqMax(s) == CHOOSE x \in Elems(s) : \A y \in Elems(s) : y <= x

calculateReturn(prices, window) ==
    IF Len(prices) < window + 1 THEN RInt(0)
    ELSE LET startPrice == prices[Len(prices) - window]
             endPrice == prices[Len(prices)]
         IN IF startPrice <= 0 THEN RInt(0)
            ELSE Rat(endPrice - startPrice, startPrice)

\* The returns pushed by the loop i = length - window .. length - 1 (0-based)
RECURSIVE DailyReturns(_, _, _)
DailyReturns(prices, i, last) ==
    IF i > last THEN <<>>
    ELSE (IF prices[i - 1] > 0
          THEN <<Rat(prices[i] - prices[i - 1], prices[i - 1])>> ELSE <<>>)
         \o DailyReturns(prices, i + 1, last)

RECURSIVE SumSqDev(_, _)
SumSqDev(s, mean) ==
    IF s = <<>> THEN RInt(0)
    ELSE RAdd(RMul(RSub(Head(s), mean), RSub(Head(s), mean)), SumSqDev(Tail(s), mean))

\* stdDev * Math.sqrt(365), as the square root of variance * 365
calculateVolatility(prices, window) ==
    IF Len(prices) < window + 1 THEN Sqrt(RInt(0))
    ELSE LET returns == DailyReturns(prices, Len(prices) - window + 1, Len(prices))
         IN IF Len(returns) = 0 THEN Sqrt(RInt(0))
            ELSE LET mean == RDiv(RSum(returns), RInt(Len(returns)))
                     variance == RDiv(SumSqDev(returns, mean), RInt(Len(returns)))
                 IN Sqrt(RMul(variance, RInt(DaysPerYear)))

\* The for loop of calculateMaxDrawdown from index i (1-based) on
RECURSIVE DrawdownLoop(_, _, _, _)
DrawdownLoop(prices, i, peak, maxDrawdown) ==
    IF i > Len(prices) THEN maxDrawdown
    ELSE IF prices[i] > peak THEN DrawdownLoop(prices, i + 1, prices[i], maxDrawdown)
    ELSE LET drawdown == Rat(peak - prices[i], peak)
         IN DrawdownLoop(prices, i + 1, peak,
                         IF RLt(maxDrawdown, drawdown) THEN drawdown ELSE maxDrawdown)

\* The loop with the peak never updated
RECURSIVE DrawdownLoopFixedPeak(_, _, _, _)
DrawdownLoopFixedPeak(prices, i, peak, maxDrawdown) ==
    IF i > Len(prices) THEN maxDrawdown
    ELSE LET drawdown == Rat(peak - prices[i], peak)
         IN DrawdownLoopFixedPeak(prices, i + 1, peak,
                         IF RLt(maxDrawdown, drawdown) THEN drawdown ELSE maxDrawdown)

calculateMaxDrawdownFixedPeak(prices) ==
    IF Len(prices) < 2 THEN RInt(0)
    ELSE DrawdownLoopFixedPeak(prices, 2, prices[1], RInt(0))

calculateMaxDrawdown(prices) ==
    IF Len(prices) < 2 THEN RInt(0)
    ELSE DrawdownLoop(prices, 2, prices[1], RInt(0))

\* computeRawFactors after the findMany query: rows are the query's result
computeRawFactors(rows, params) ==
    IF Len(rows) < params.returnWindows.long THEN Null
    ELSE
      LET latestData == rows[Len(rows)]
          currentPrice == latestData.price
          currentMarketCap == latestData.marketCap
          currentVolume == latestData.volume
          prices365d ==
              FilterPositive([i \in DOMAIN SliceLast(rows, params.returnWindows.long) |->
                  LET d == SliceLast(rows, params.returnWindows.long)[i]
                  IN IF d.high # 0 THEN d.high ELSE d.price])
          high365d == IF Len(prices365d) > 0 THEN SeqMax(prices365d) ELSE currentPrice
          prices == FilterPositive([i \in DOMAIN rows |-> rows[i].price])
          volumes30d ==
              FilterPositive([i \in DOMAIN SliceLast(rows, params.liquidityWindow) |->
                  SliceLast(rows, params.liquidityWindow)[i].volume])
      IN [logMarketCap |-> IF currentMarketCap > 0 THEN Ln(currentMarketCap) ELSE RInt(0),
          fdvToMarketCapRatio |->
              IF currentMarketCap > 0 /\ latestData.fdv # 0
              THEN Rat(latestData.fdv, currentMarketCap) ELSE RInt(1),
          priceToHigh365d |-> IF high365d > 0 THEN Rat(currentPrice, high365d) ELSE RInt(0),
          return90d |-> calculateReturn(prices, params.returnWindows.short),
          return180d |-> calculateReturn(prices, params.returnWindows.medium),
          return365d |-> calculateReturn(prices, params.returnWindows.long),
          volatility90d |-> calculateVolatility(prices, params.volatilityWindows.short),
          volatility180d |-> calculateVolatility(prices, params.volatilityWindows.medium),
          volumeToMarketCapRatio |->
              IF currentMarketCap > 0 THEN Rat(currentVolume, currentMarketCap) ELSE RInt(0),
          avgDailyVolume30d |->
              IF Len(volumes30d) > 0 THEN Rat(IntSum(volumes30d), Len(volumes30d))
              ELSE RInt(0),
          volatility365d |-> calculateVolatility(prices, params.volatilityWindows.long),
          maxDrawdown365d |-> calculateMaxDrawdown(prices)]

InitExtract ==
    /\ IdleScripts
    /\ marketData \in {RowsOf(p, x) : p \in SeqsUpTo(PriceLevels, MaxDays), x \in RowExtras}
    /\ computed = NoResult
    /\ IdlePercentile /\ IdleScoring /\ IdleWeights /\ IdleTA

CallComputeRawFactors ==
    /\ computed = NoResult
    /\ computed' = computeRawFactors(marketData, FactorParams)
    /\ UNCHANGED <<pctArray, pctCalls, allAssetsFactors, rawFactors, factorScores,
                   rules, assetScores, targetWeights, allocation, marketData,
                   klines, indicators, breakoutUp, breakoutDown, retestLong,
                   retestShort, technicalSignals, lastScan, factorSnapshots,
                   portfolioSuggestions, suggestionResult,
                   chat, updater, scanners, report>>

NextExtract == CallComputeRawFactors

SpecExtract == InitExtract /\ [][NextExtract]_vars

----
\* Properties of the FactorExtractor

ReturnedRecord == computed # NoResult /\ computed # Null

PositivePrices == FilterPositive([i \in DOMAIN marketData |-> marketData[i].price])

AllPricesPositive == \A i \in DOMAIN marketData : marketData[i].price > 0

\* C9 as stated: a series shorter than a window some factor requires yields
\* the explicit null.  return365d and volatility365d need WindowLong + 1
\* prices, so a record is returned, for rows whose prices are all positive,
\* only when there are at least WindowLong + 1 rows; no record holds a 0
\* substituted for a factor whose window the series does not cover.
C9_NullWhenWindowNotCovered ==
    (ReturnedRecord /\ AllPricesPositive) => Len(marketData) >= WindowLong + 1

\* C9, the state it fails in: exactly WindowLong rows, all prices positive,
\* first and last price different, and a record whose return365d and
\* volatility365d are both 0
C9_SubstitutedZero ==
    /\ ReturnedRecord
    /\ AllPricesPositive
    /\ Len(marketData) = WindowLong
    /\ PositivePrices[1] # PositivePrices[WindowLong]
    /\ computed.return365d = RInt(0)
    /\ computed.volatility365d = Sqrt(RInt(0))

\* Running peak at point i and the drawdown there
PeakAt(prices, i) == SeqMax(SubSeq(prices, 1, i))
DrawdownAt(prices, i) == Rat(PeakAt(prices, i) - prices[i], PeakAt(prices, i))
NonDecreasing(prices) == \A i \in 1..(Len(prices) - 1) : prices[i] <= prices[i + 1]

\* C10: over a positive price series calculateMaxDrawdown returns the maximum
\* over all points of (running peak - price) / running peak; that is 0 for
\* every non-decreasing series and 0.5 for [100, 50, 100].
C10_MaxDrawdown ==
    ReturnedRecord =>
        LET prices == PositivePrices
            dd == computed.maxDrawdown365d
        IN /\ \A i \in DOMAIN prices : RLe(DrawdownAt(prices, i), dd)
           /\ (prices # <<>>) => \E i \in DOMAIN prices : dd = DrawdownAt(prices, i)
           /\ (prices = <<>>) => dd = RInt(0)
           /\ NonDecreasing(prices) => dd = RInt(0)
           /\ prices = <<100, 50, 100>> => dd = Rat(1, 2)

C10_Witness ==
    /\ ReturnedRecord
    /\ PositivePrices = <<100, 50, 100>>
    /\ computed.maxDrawdown365d = Rat(1, 2)

----
\* Technical analysis (ta/indicators.ts, ta/signalRules.ts, ta/taConfig.ts,
\* ta/scanSignals.ts).  Prices, volumes and scores are JS numbers.

\* Scaled down from the periods 20 / 60 / 120 of calculateAllIndicators
MAShort == 2
MAMedium == 3
MALong == 4
\* Scaled down from calculateMACD(closes, 12, 26, 9)
MACDFast == 1
MACDSlow == 2
MACDSignal == 2
\* Scaled down from calculateSlopeStd(ma, 10)
SlopeLookback == 2
\* Scaled down from SCAN_LOOKBACK_BARS = 100 and RETEST_WINDOW_BARS = 20
SCAN_LOOKBACK_BARS == 3
RETEST_WINDOW_BARS == 2
\* Scaled down from the 20 bars before the breakout bar of calculateBreakoutScore
VolumeLookback == 2
\* Bars fetched after the warm-up of MALong bars
MaxRecentBars == 4

MACD_CONFIRMATION_BARS == 3

\* The value of a singleton set: The({e : x \in {v}}) is e with x bound to the
\* value of v, so that v is computed once however often e refers to x
The(S) == CHOOSE r \in S : TRUE

\* A finite JS number is kept to four significant decimal digits:
\* [m, e] stands for m * 10^e, with |m| < 10^4 and m not a multiple of 10
\* (0 is [0, 0]); every operation rounds its result to nearest.
\* The number of decimal digits of n >= 0
Digits(n) ==
    IF n < 10000
    THEN (IF n < 100 THEN (IF n < 10 THEN (IF n = 0 THEN 0 ELSE 1) ELSE 2)
          ELSE IF n < 1000 THEN 3 ELSE 4)
    ELSE IF n < 1000000 THEN (IF n < 100000 THEN 5 ELSE 6)
    ELSE IF n < 100000000 THEN (IF n < 10000000 THEN 7 ELSE 8)
    ELSE IF n < 1000000000 THEN 9 ELSE 10

RECURSIVE Strip(_, _)
Strip(m, e) == IF m % 10 = 0 THEN Strip(m \div 10, e + 1) ELSE [m |-> m, e |-> e]

DNorm(m, e) ==
    IF m = 0 THEN [m |-> 0, e |-> 0]
    ELSE LET a == Abs(m)
         IN IF a < 10000 THEN Strip(m, e)
            ELSE LET k == Digits(a) - 4
                     q == (a + (10^k) \div 2) \div (10^k)
                 IN Strip(IF m < 0 THEN -q ELSE q, e + k)

Dec(m, e) == DNorm(m, e)
DNeg(a) == [m |-> -a.m, e |-> a.e]

\* x.e >= y.e: y is below the last digit of x when x cannot be aligned to it
DAddAligned(x, y) ==
    LET g == x.e - y.e
    IN IF Digits(Abs(x.m)) + g > 9 THEN x
       ELSE DNorm(x.m * (10^g) + y.m, y.e)

DAdd(a, b) ==
    IF a.m = 0 THEN b
    ELSE IF b.m = 0 THEN a
    ELSE IF a.e >= b.e THEN DAddAligned(a, b) ELSE DAddAligned(b, a)
DSub(a, b) == DAdd(a, DNeg(b))
DMul(a, b) == DNorm(a.m * b.m, a.e + b.e)
DDiv(a, b) ==
    IF a.m = 0 THEN a
    ELSE LET s == 4 - Digits(Abs(a.m))
             q == (Abs(a.m) * (10^(s + 5))) \div Abs(b.m)
             neg == (a.m < 0) # (b.m < 0)
         IN DNorm(IF neg THEN -q ELSE q, a.e - s - 5 - b.e)
DLt(a, b) == DSub(a, b).m < 0

\* The largest integer whose square is at most n
RECURSIVE ISqrtIn(_, _, _)
ISqrtIn(n, lo, hi) ==
    IF lo >= hi THEN lo
    ELSE The({IF mid * mid <= n THEN ISqrtIn(n, mid, hi) ELSE ISqrtIn(n, lo, mid - 1) :
              mid \in {(lo + hi + 1) \div 2}})

\* Square root of a >= 0: the mantissa is scaled into [10^6, 10^8) with an
\* even exponent left over
DSqrt(a) ==
    IF a.m = 0 THEN a
    ELSE LET s0 == 7 - Digits(a.m)
             s == IF (a.e - s0) % 2 = 0 THEN s0 ELSE s0 + 1
         IN DNorm(ISqrtIn(a.m * (10^s), 0, 10000), (a.e - s) \div 2)

Fin(d) == [k |-> "num", v |-> d]
FinInt(i) == Fin(Dec(i, 0))

JIsNaN(x) == x.k = "nan"
JSign(a) ==
    The({CASE x.k = "inf" -> 1
           [] x.k = "ninf" -> -1
           [] x.k = "num" -> (IF x.v.m > 0 THEN 1 ELSE IF x.v.m < 0 THEN -1 ELSE 0)
           [] OTHER -> 0 : x \in {a}})
JInfOf(s) == IF s > 0 THEN PosInf ELSE NegInf
JNeg(a) ==
    The({CASE x.k = "num" -> Fin(DNeg(x.v))
           [] x.k = "inf" -> NegInf
           [] x.k = "ninf" -> PosInf
           [] OTHER -> NaN : x \in {a}})
JAdd(a, b) ==
    The({IF JIsNaN(x) \/ JIsNaN(y) THEN NaN
         ELSE IF x.k = "num" /\ y.k = "num" THEN Fin(DAdd(x.v, y.v))
         ELSE IF x.k = "num" THEN y
         ELSE IF y.k = "num" THEN x
         ELSE IF x.k = y.k THEN x ELSE NaN : x \in {a}, y \in {b}})
JSub(a, b) == JAdd(a, JNeg(b))
JMul(a, b) ==
    The({IF JIsNaN(x) \/ JIsNaN(y) THEN NaN
         ELSE IF x.k = "num" /\ y.k = "num" THEN Fin(DMul(x.v, y.v))
         ELSE IF JSign(x) * JSign(y) = 0 THEN NaN
         ELSE JInfOf(JSign(x) * JSign(y)) : x \in {a}, y \in {b}})
\* IEEE division; the sign of a zero divisor is taken as positive
JDiv(a, b) ==
    The({IF JIsNaN(x) \/ JIsNaN(y) THEN NaN
         ELSE IF x.k = "num" /\ y.k = "num"
              THEN IF y.v.m # 0 THEN Fin(DDiv(x.v, y.v))
                   ELSE IF x.v.m = 0 THEN NaN ELSE JInfOf(JSign(x))
         ELSE IF x.k = "num" THEN FinInt(0)
         ELSE IF y.k = "num" THEN JInfOf(JSign(x) * (IF JSign(y) < 0 THEN -1 ELSE 1))
         ELSE NaN : x \in {a}, y \in {b}})
JLt(a, b) ==
    \E x \in {a}, y \in {b} :
        /\ ~JIsNaN(x) /\ ~JIsNaN(y)
        /\ CASE x.k = "num" /\ y.k = "num" -> DLt(x.v, y.v)
             [] x.k = "ninf" -> y.k # "ninf"
             [] y.k = "inf" -> x.k # "inf"
             [] OTHER -> FALSE
JGt(a, b) == JLt(b, a)
JLte(a, b) == \E x \in {a}, y \in {b} : ~JIsNaN(x) /\ ~JIsNaN(y) /\ ~JLt(y, x)
JGte(a, b) == JLte(b, a)
JAbs(a) == The({IF JSign(x) < 0 THEN JNeg(x) ELSE x : x \in {a}})
\* Math.sqrt
MathSqrt(a) ==
    The({CASE x.k = "num" -> (IF x.v.m < 0 THEN NaN ELSE Fin(DSqrt(x.v)))
           [] x.k = "inf" -> PosInf
           [] OTHER -> NaN : x \in {a}})
\* Math.min / Math.max of two numbers
JMin(a, b) ==
    The({IF JIsNaN(x) \/ JIsNaN(y) THEN NaN ELSE IF JLt(y, x) THEN y ELSE x :
         x \in {a}, y \in {b}})
JMax(a, b) ==
    The({IF JIsNaN(x) \/ JIsNaN(y) THEN NaN ELSE IF JLt(x, y) THEN y ELSE x :
         x \in {a}, y \in {b}})

\* array.reduce((a, b) => a + b, 0)
RECURSIVE JSum(_)
JSum(s) ==
    The({IF v = <<>> THEN FinInt(0) ELSE JAdd(JSum(SubSeq(v, 1, Len(v) - 1)), v[Len(v)]) :
         v \in {s}})

\* Math.max(...values) / Math.min(...values) of a non-empty array
RECURSIVE JMaxOf(_)
JMaxOf(s) ==
    The({IF Len(v) = 1 THEN v[1] ELSE JMax(JMaxOf(SubSeq(v, 1, Len(v) - 1)), v[Len(v)]) :
         v \in {s}})
RECURSIVE JMinOf(_)
JMinOf(s) ==
    The({IF Len(v) = 1 THEN v[1] ELSE JMin(JMinOf(SubSeq(v, 1, Len(v) - 1)), v[Len(v)]) :
         v \in {s}})

\* array[i] for a JS index i
At(s, i) == s[i + 1]
\* array.slice(from, to)
Slice(s, from, to) == SubSeq(s, from + 1, to)

----
\* ta/indicators.ts

calculateMA(prices, period) ==
    [k \in 1..Len(prices) |->
        LET i == k - 1
        IN IF i < period - 1 THEN NaN
           ELSE JDiv(JSum(Slice(prices, i - period + 1, i + 1)), FinInt(period))]

\* The loop of calculateEMA with the recurrence applied from index 1 on
RECURSIVE EMALoopNoWarmup(_, _, _, _)
EMALoopNoWarmup(prices, period, i, ema) ==
    IF i >= Len(prices) THEN ema
    ELSE LET multiplier == JDiv(FinInt(2), FinInt(period + 1))
             next ==
                 IF i = 0 THEN At(prices, i)
                 ELSE The({JAdd(JMul(JSub(At(prices, i), prevEMA), multiplier), prevEMA) :
                           prevEMA \in {At(ema, i - 1)}})
         IN The({EMALoopNoWarmup(prices, period, j, pushed) :
                 j \in {i + 1}, pushed \in {Append(ema, next)}})

RECURSIVE EMALoop(_, _, _, _)
EMALoop(prices, period, i, ema) ==
    IF i >= Len(prices) THEN ema
    ELSE LET multiplier == JDiv(FinInt(2), FinInt(period + 1))
             next ==
                 IF i = 0 THEN At(prices, i)
                 ELSE IF i < period - 1
                      THEN JDiv(JSum(Slice(prices, 0, i + 1)), FinInt(i + 1))
                      ELSE The({JAdd(JMul(JSub(At(prices, i), prevEMA), multiplier), prevEMA) :
                                prevEMA \in {At(ema, i - 1)}})
         IN The({EMALoop(prices, period, j, pushed) :
                 j \in {i + 1}, pushed \in {Append(ema, next)}})

calculateEMA(prices, period) == EMALoop(prices, period, 0, <<>>)

\* array.filter(v => !isNaN(v))
RECURSIVE FilterNotNaN(_)
FilterNotNaN(s) ==
    The({IF v = <<>> THEN <<>>
         ELSE IF JIsNaN(Head(v)) THEN FilterNotNaN(Tail(v))
         ELSE <<Head(v)>> \o FilterNotNaN(Tail(v)) : v \in {s}})

\* The alignment loop of calculateMACD: dea padded with NaN where dif is NaN
RECURSIVE AlignDea(_, _, _, _, _)
AlignDea(dif, dea, i, deaIndex, deaAligned) ==
    IF i >= Len(dif) THEN deaAligned
    ELSE The({AlignDea(dif, dea, i + 1, step[1], step[2]) :
              step \in {IF JIsNaN(At(dif, i)) THEN <<deaIndex, Append(deaAligned, NaN)>>
                        ELSE IF deaIndex < Len(dea)
                             THEN <<deaIndex + 1, Append(deaAligned, At(dea, deaIndex))>>
                             ELSE <<deaIndex, Append(deaAligned, NaN)>>}})

calculateMACD(prices, fastPeriod, slowPeriod, signalPeriod) ==
    The({The({The({The({
        [dif |-> dif,
         dea |-> deaAligned,
         histogram |-> [k \in 1..Len(dif) |->
                           IF JIsNaN(dif[k]) \/ JIsNaN(deaAligned[k]) THEN NaN
                           ELSE JSub(dif[k], deaAligned[k])]] :
        deaAligned \in {AlignDea(dif, dea, 0, 0, <<>>)}}) :
        dea \in {The({calculateEMA(valid, signalPeriod) : valid \in {FilterNotNaN(dif)}})}}) :
        dif \in {[k \in 1..Len(prices) |->
                     IF JIsNaN(fastEMA[k]) \/ JIsNaN(slowEMA[k]) THEN NaN
                     ELSE JSub(fastEMA[k], slowEMA[k])]}}) :
        fastEMA \in {calculateEMA(prices, fastPeriod)},
        slowEMA \in {calculateEMA(prices, slowPeriod)}})

calculateAllIndicators(bars) ==
    The({[closes |-> closes,
          ma20 |-> calculateMA(closes, MAShort),
          ma60 |-> calculateMA(closes, MAMedium),
          ma120 |-> calculateMA(closes, MALong),
          ema20 |-> calculateEMA(closes, MAShort),
          ema60 |-> calculateEMA(closes, MAMedium),
          ema120 |-> calculateEMA(closes, MALong),
          macd |-> calculateMACD(closes, MACDFast, MACDSlow, MACDSignal)] :
         closes \in {[k \in 1..Len(bars) |-> bars[k].close]}})

\* The slopes collected for index i by calculateSlopeStd
RECURSIVE SlopesOf(_, _, _)
SlopesOf(maValues, j, i) ==
    IF j > i THEN <<>>
    ELSE IF j > 0 /\ ~JIsNaN(At(maValues, j)) /\ ~JIsNaN(At(maValues, j - 1))
         THEN <<JDiv(JSub(At(maValues, j), At(maValues, j - 1)), At(maValues, j - 1))>>
              \o SlopesOf(maValues, j + 1, i)
         ELSE SlopesOf(maValues, j + 1, i)

\* calculateSlopeStd(maValues, lookback)[i]
calculateSlopeStdAt(maValues, lookback, i) ==
    IF i < lookback THEN NaN
    ELSE The({
        IF Len(slopes) = 0 THEN NaN
        ELSE The({
            LET sq == [k \in 1..Len(slopes) |->
                          The({JMul(d, d) : d \in {JSub(slopes[k], mean)}})]
                variance == JDiv(JSum(sq), FinInt(Len(slopes)))
            IN MathSqrt(variance) :
            mean \in {JDiv(JSum(slopes), FinInt(Len(slopes)))}}) :
        slopes \in {SlopesOf(maValues, i - lookback + 1, i)}})

----
\* ta/taConfig.ts

D_MAX == Fin(Dec(3, -2))
S_MAX == Fin(Dec(2, -2))
BREAKOUT_BUFFER == Fin(Dec(2, -3))
MIN_DENSITY_SCORE_FOR_BREAKOUT == Fin(Dec(5, -1))
DIST_MAX == Fin(Dec(2, 0))
VOL_MAX == Fin(Dec(3, 0))
BREAKOUT_SCORE_WEIGHTS ==
    [distance |-> Fin(Dec(4, -1)), move |-> Fin(Dec(3, -1)), volume |-> Fin(Dec(3, -1))]
RETEST_TOLERANCE_MULTIPLIER == Fin(Dec(1, 0))
RETEST_MIN_PRICE_OFFSET == Fin(Dec(5, -3))
STOP_LOSS_CLUSTER_OFFSET == Fin(Dec(5, -1))
STOP_LOSS_MIN_OFFSET == Fin(Dec(5, -3))
TAKE_PROFIT_R1 == Fin(Dec(1, 0))
TAKE_PROFIT_R2 == Fin(Dec(2, 0))
USE_BREAKOUT_CLOSE_PRICE == TRUE
SIGNAL_SCORE_WEIGHTS ==
    [breakout |-> [density |-> Fin(Dec(4, -1)), breakout |-> Fin(Dec(6, -1))],
     retest |-> [density |-> Fin(Dec(3, -1)), breakout |-> Fin(Dec(4, -1)),
                 retest |-> Fin(Dec(3, -1))]]

----
\* ta/signalRules.ts

\* The slopeStds array of calculateClusterInfo: the non-NaN slope deviations
RECURSIVE SlopeStds(_, _)
SlopeStds(allMAs, index) ==
    IF allMAs = <<>> THEN <<>>
    ELSE The({IF ~JIsNaN(slopeStd) THEN <<slopeStd>> \o SlopeStds(Tail(allMAs), index)
              ELSE SlopeStds(Tail(allMAs), index) :
              slopeStd \in {calculateSlopeStdAt(Head(allMAs), SlopeLookback, index)}})

calculateClusterInfo(index, ma20, ma60, ma120, ema20, ema60, ema120) ==
    The({
        IF \E k \in 1..6 : JIsNaN(maValues[k]) THEN Null
        ELSE The({The({The({
            LET densityScore == JSub(FinInt(1), JMin(JDiv(densityRatio, D_MAX), FinInt(1)))
                flatScore ==
                    IF Len(slopeStds) > 0
                    THEN LET avgSlopeStd == JDiv(JSum(slopeStds), FinInt(Len(slopeStds)))
                         IN JSub(FinInt(1), JMin(JDiv(avgSlopeStd, S_MAX), FinInt(1)))
                    ELSE FinInt(1)
            IN [index |-> index,
                clusterMean |-> clusterMean,
                clusterHigh |-> clusterHigh,
                clusterLow |-> clusterLow,
                clusterWidth |-> clusterWidth,
                densityRatio |-> densityRatio,
                densityScore |-> JMul(densityScore, flatScore)] :
            densityRatio \in {JDiv(clusterWidth, clusterMean)},
            slopeStds \in {The({SlopeStds(allMAs, index) :
                               allMAs \in {<<ma20, ma60, ma120, ema20, ema60, ema120>>}})}}) :
            clusterWidth \in {JSub(clusterHigh, clusterLow)}}) :
            clusterMean \in {JDiv(JSum(maValues), FinInt(6))},
            clusterHigh \in {JMaxOf(maValues)},
            clusterLow \in {JMinOf(maValues)}}) :
        maValues \in {<<At(ma20, index), At(ma60, index), At(ma120, index),
                        At(ema20, index), At(ema60, index), At(ema120, index)>>}})

\* The cluster the scanners compute at bar index
ClusterAt(ind, index) ==
    calculateClusterInfo(index, ind.ma20, ind.ma60, ind.ma120,
                         ind.ema20, ind.ema60, ind.ema120)

checkMACDConfirmation(macd, index, direction, lookback) ==
    LET startIndex == IF index - lookback + 1 > 0 THEN index - lookback + 1 ELSE 0
        hist(i) == At(macd.histogram, i)
        dif(i) == At(macd.dif, i)
        dea(i) == At(macd.dea, i)
    IN IF direction = "long"
       THEN \E i \in startIndex..index :
               /\ i > 0
               /\ \/ /\ ~JIsNaN(hist(i - 1)) /\ ~JIsNaN(hist(i))
                     /\ JLte(hist(i - 1), FinInt(0)) /\ JGt(hist(i), FinInt(0))
                  \/ /\ ~JIsNaN(dif(i - 1)) /\ ~JIsNaN(dea(i - 1))
                     /\ ~JIsNaN(dif(i)) /\ ~JIsNaN(dea(i))
                     /\ JLte(dif(i - 1), dea(i - 1)) /\ JGt(dif(i), dea(i))
       ELSE \E i \in startIndex..index :
               /\ i > 0
               /\ \/ /\ ~JIsNaN(hist(i - 1)) /\ ~JIsNaN(hist(i))
                     /\ JGte(hist(i - 1), FinInt(0)) /\ JLt(hist(i), FinInt(0))
                  \/ /\ ~JIsNaN(dif(i - 1)) /\ ~JIsNaN(dea(i - 1))
                     /\ ~JIsNaN(dif(i)) /\ ~JIsNaN(dea(i))
                     /\ JGte(dif(i - 1), dea(i - 1)) /\ JLt(dif(i), dea(i))

\* The bars whose volumes calculateBreakoutScore averages
VolumeWindow(bars, breakoutIndex) ==
    Slice(bars,
          IF breakoutIndex - VolumeLookback > 0 THEN breakoutIndex - VolumeLookback ELSE 0,
          breakoutIndex + 1)

calculateBreakoutScore(bars, clusterInfo, breakoutIndex, direction) ==
    LET clusterMean == clusterInfo.clusterMean
        clusterWidth == clusterInfo.clusterWidth
        breakoutClose == At(bars, breakoutIndex).close
        prevClose == IF breakoutIndex > 0 THEN At(bars, breakoutIndex - 1).close
                     ELSE breakoutClose
        distFromMean == JAbs(JSub(breakoutClose, clusterMean))
        distRatio == IF JGt(clusterWidth, FinInt(0)) THEN JDiv(distFromMean, clusterWidth)
                     ELSE FinInt(0)
        sDist == JMin(JDiv(distRatio, DIST_MAX), FinInt(1))
        moveRatio == JDiv(JAbs(JSub(breakoutClose, prevClose)), prevClose)
        sMove == JMin(JDiv(moveRatio, Fin(Dec(2, -2))), FinInt(1))
        volumes == The({[k \in 1..Len(window) |-> window[k].volume] :
                        window \in {VolumeWindow(bars, breakoutIndex)}})
        currentVolume == At(bars, breakoutIndex).volume
        volumeRatio ==
            The({IF JGt(avgVolume, FinInt(0)) THEN JDiv(currentVolume, avgVolume)
                 ELSE FinInt(1) :
                 avgVolume \in {The({JDiv(JSum(v), FinInt(Len(v))) : v \in {volumes}})}})
        sVolume == JMin(JDiv(volumeRatio, VOL_MAX), FinInt(1))
        breakoutScore ==
            JAdd(JAdd(JMul(BREAKOUT_SCORE_WEIGHTS.distance, sDist),
                      JMul(BREAKOUT_SCORE_WEIGHTS.move, sMove)),
                 JMul(BREAKOUT_SCORE_WEIGHTS.volume, sVolume))
    IN JMin(breakoutScore, FinInt(1))

calculateStopLossAndTakeProfitMinOffset(entryPrice, clusterInfo, direction) ==
    LET offset == JMin(JMul(clusterInfo.clusterWidth, STOP_LOSS_CLUSTER_OFFSET),
                       JMul(clusterInfo.clusterMean, STOP_LOSS_MIN_OFFSET))
    IN The({The({
           IF direction = "long"
           THEN [stopLoss |-> stopLoss,
                 takeProfit1 |-> JAdd(entryPrice, JMul(riskPerUnit, TAKE_PROFIT_R1)),
                 takeProfit2 |-> JAdd(entryPrice, JMul(riskPerUnit, TAKE_PROFIT_R2))]
           ELSE [stopLoss |-> stopLoss,
                 takeProfit1 |-> JSub(entryPrice, JMul(riskPerUnit, TAKE_PROFIT_R1)),
                 takeProfit2 |-> JSub(entryPrice, JMul(riskPerUnit, TAKE_PROFIT_R2))] :
           riskPerUnit \in {JAbs(JSub(entryPrice, stopLoss))}}) :
           stopLoss \in {IF direction = "long" THEN JSub(clusterInfo.clusterLow, offset)
                         ELSE JAdd(clusterInfo.clusterHigh, offset)}})

calculateStopLossAndTakeProfit(entryPrice, clusterInfo, direction) ==
    LET offset == JMax(JMul(clusterInfo.clusterWidth, STOP_LOSS_CLUSTER_OFFSET),
                       JMul(clusterInfo.clusterMean, STOP_LOSS_MIN_OFFSET))
    IN The({The({
           IF direction = "long"
           THEN [stopLoss |-> stopLoss,
                 takeProfit1 |-> JAdd(entryPrice, JMul(riskPerUnit, TAKE_PROFIT_R1)),
                 takeProfit2 |-> JAdd(entryPrice, JMul(riskPerUnit, TAKE_PROFIT_R2))]
           ELSE [stopLoss |-> stopLoss,
                 takeProfit1 |-> JSub(entryPrice, JMul(riskPerUnit, TAKE_PROFIT_R1)),
                 takeProfit2 |-> JSub(entryPrice, JMul(riskPerUnit, TAKE_PROFIT_R2))] :
           riskPerUnit \in {JAbs(JSub(entryPrice, stopLoss))}}) :
           stopLoss \in {IF direction = "long" THEN JSub(clusterInfo.clusterLow, offset)
                         ELSE JAdd(clusterInfo.clusterHigh, offset)}})

\* entryPrice of a breakout at t1
BreakoutEntryPrice(bars, t1) ==
    IF USE_BREAKOUT_CLOSE_PRICE THEN At(bars, t1).close
    ELSE IF t1 < Len(bars) - 1 THEN At(bars, t1 + 1).open ELSE At(bars, t1).close

\* The BreakoutSignal object the scanners build
BreakoutSignalOf(bars, clusterInfo, t1, signalType, direction) ==
    LET breakoutScore == calculateBreakoutScore(bars, clusterInfo, t1, direction)
        entryPrice == BreakoutEntryPrice(bars, t1)
    IN The({[signalType |-> signalType,
             direction |-> direction,
             breakoutBarIndex |-> t1,
             breakoutBarTime |-> At(bars, t1).openTime,
             clusterInfo |-> clusterInfo,
             breakoutScore |-> breakoutScore,
             entryPrice |-> entryPrice,
             stopLoss |-> sltp.stopLoss,
             takeProfit1 |-> sltp.takeProfit1,
             takeProfit2 |-> sltp.takeProfit2] :
            sltp \in {calculateStopLossAndTakeProfit(entryPrice, clusterInfo, direction)}})

\* One iteration of the loop of scanBreakoutUp: Null where the code continues
BreakoutUpAtAnyPriorClose(bars, ind, t1) ==
    LET t0 == t1 - 1
        closeT1 == At(ind.closes, t1)
    IN The({
        LET breakoutThreshold ==
                IF clusterInfo = Null THEN NaN
                ELSE JMul(clusterInfo.clusterHigh, JAdd(FinInt(1), BREAKOUT_BUFFER))
        IN IF clusterInfo = Null THEN Null
           ELSE IF JLt(clusterInfo.densityScore, MIN_DENSITY_SCORE_FOR_BREAKOUT) THEN Null
           ELSE IF JLte(closeT1, breakoutThreshold) THEN Null
           ELSE IF ~checkMACDConfirmation(ind.macd, t1, "long", MACD_CONFIRMATION_BARS)
                THEN Null
           ELSE BreakoutSignalOf(bars, clusterInfo, t1, "cluster_breakout_up", "long") :
        clusterInfo \in {ClusterAt(ind, t0)}})

BreakoutUpAt(bars, ind, t1) ==
    LET t0 == t1 - 1
        closeT0 == At(ind.closes, t0)
        closeT1 == At(ind.closes, t1)
    IN The({
        LET breakoutThreshold ==
                IF clusterInfo = Null THEN NaN
                ELSE JMul(clusterInfo.clusterHigh, JAdd(FinInt(1), BREAKOUT_BUFFER))
        IN IF clusterInfo = Null THEN Null
           ELSE IF JLt(clusterInfo.densityScore, MIN_DENSITY_SCORE_FOR_BREAKOUT) THEN Null
           ELSE IF JGt(closeT0, clusterInfo.clusterHigh) THEN Null
           ELSE IF JLte(closeT1, breakoutThreshold) THEN Null
           ELSE IF ~checkMACDConfirmation(ind.macd, t1, "long", MACD_CONFIRMATION_BARS)
                THEN Null
           ELSE BreakoutSignalOf(bars, clusterInfo, t1, "cluster_breakout_up", "long") :
        clusterInfo \in {ClusterAt(ind, t0)}})

\* for (let t1 = klines.length - 1; t1 >= lookback; t1--), oldest bar first
RECURSIVE ScanUpLoopOldestFirst(_, _, _, _)
ScanUpLoopOldestFirst(bars, ind, t1, lookback) ==
    IF t1 < lookback THEN Null
    ELSE The({IF older # Null THEN older ELSE BreakoutUpAt(bars, ind, t1) :
              older \in {ScanUpLoopOldestFirst(bars, ind, t1 - 1, lookback)}})

\* for (let t1 = klines.length - 1; t1 >= lookback; t1--)
RECURSIVE ScanUpLoop(_, _, _, _)
ScanUpLoop(bars, ind, t1, lookback) ==
    IF t1 < lookback THEN Null
    ELSE The({IF found # Null THEN found ELSE ScanUpLoop(bars, ind, t1 - 1, lookback) :
              found \in {BreakoutUpAt(bars, ind, t1)}})

scanBreakoutUp(bars, ind, lookback) == ScanUpLoop(bars, ind, Len(bars) - 1, lookback)

\* One iteration of the loop of scanBreakoutDown
BreakoutDownAt(bars, ind, t1) ==
    LET t0 == t1 - 1
        closeT0 == At(ind.closes, t0)
        closeT1 == At(ind.closes, t1)
    IN The({
        LET breakoutThreshold ==
                IF clusterInfo = Null THEN NaN
                ELSE JMul(clusterInfo.clusterLow, JSub(FinInt(1), BREAKOUT_BUFFER))
        IN IF clusterInfo = Null THEN Null
           ELSE IF JLt(clusterInfo.densityScore, MIN_DENSITY_SCORE_FOR_BREAKOUT) THEN Null
           ELSE IF JLt(closeT0, clusterInfo.clusterLow) THEN Null
           ELSE IF JGte(closeT1, breakoutThreshold) THEN Null
           ELSE IF ~checkMACDConfirmation(ind.macd, t1, "short", MACD_CONFIRMATION_BARS)
                THEN Null
           ELSE BreakoutSignalOf(bars, clusterInfo, t1, "cluster_breakout_down", "short") :
        clusterInfo \in {ClusterAt(ind, t0)}})

RECURSIVE ScanDownLoop(_, _, _, _)
ScanDownLoop(bars, ind, t1, lookback) ==
    IF t1 < lookback THEN Null
    ELSE The({IF found # Null THEN found ELSE ScanDownLoop(bars, ind, t1 - 1, lookback) :
              found \in {BreakoutDownAt(bars, ind, t1)}})

scanBreakoutDown(bars, ind, lookback) == ScanDownLoop(bars, ind, Len(bars) - 1, lookback)

\* The RetestSignal object the scanners build at bar i touching at price touch
RetestSignalOf(bars, ind, breakoutSignal, i, touch, signalType, direction) ==
    LET clusterInfo == breakoutSignal.clusterInfo
        retestDepth == JDiv(JAbs(JSub(touch, clusterInfo.clusterMean)),
                            clusterInfo.clusterWidth)
        retestScore == JSub(FinInt(1), JMin(retestDepth, FinInt(1)))
        entryPrice == At(ind.closes, i)
    IN The({[signalType |-> signalType,
             direction |-> direction,
             retestBarIndex |-> i,
             retestBarTime |-> At(bars, i).openTime,
             parentBreakout |-> breakoutSignal,
             retestScore |-> retestScore,
             entryPrice |-> entryPrice,
             stopLoss |-> sltp.stopLoss,
             takeProfit1 |-> sltp.takeProfit1,
             takeProfit2 |-> sltp.takeProfit2] :
            sltp \in {calculateStopLossAndTakeProfit(entryPrice, clusterInfo, direction)}})

\* Math.max(clusterWidth * RETEST_TOLERANCE_MULTIPLIER, clusterMean * RETEST_MIN_PRICE_OFFSET)
RetestTolerance(clusterInfo) ==
    JMax(JMul(clusterInfo.clusterWidth, RETEST_TOLERANCE_MULTIPLIER),
         JMul(clusterInfo.clusterMean, RETEST_MIN_PRICE_OFFSET))

\* One iteration of the loop of scanRetestLong: Null where the code continues
RetestLongAtAnyClose(bars, ind, breakoutSignal, i) ==
    LET low == At(bars, i).low
        clusterInfo == breakoutSignal.clusterInfo
        distFromMean == JAbs(JSub(low, clusterInfo.clusterMean))
    IN IF JGt(distFromMean, RetestTolerance(clusterInfo)) THEN Null
       ELSE RetestSignalOf(bars, ind, breakoutSignal, i, low, "retest_long", "long")

RetestLongAt(bars, ind, breakoutSignal, i) ==
    LET low == At(bars, i).low
        close == At(ind.closes, i)
        clusterInfo == breakoutSignal.clusterInfo
        distFromMean == JAbs(JSub(low, clusterInfo.clusterMean))
    IN IF JGt(distFromMean, RetestTolerance(clusterInfo)) THEN Null
       ELSE IF JLt(close, clusterInfo.clusterLow) THEN Null
       ELSE RetestSignalOf(bars, ind, breakoutSignal, i, low, "retest_long", "long")

\* for (let i = startIndex; i < endIndex; i++), latest bar first
RECURSIVE ScanRetestLongLoopLatestFirst(_, _, _, _, _)
ScanRetestLongLoopLatestFirst(bars, ind, breakoutSignal, i, endIndex) ==
    IF i >= endIndex THEN Null
    ELSE The({IF later # Null THEN later ELSE RetestLongAt(bars, ind, breakoutSignal, i) :
              later \in {ScanRetestLongLoopLatestFirst(bars, ind, breakoutSignal, i + 1,
                                                       endIndex)}})

\* for (let i = startIndex; i < endIndex; i++)
RECURSIVE ScanRetestLongLoop(_, _, _, _, _)
ScanRetestLongLoop(bars, ind, breakoutSignal, i, endIndex) ==
    IF i >= endIndex THEN Null
    ELSE The({IF found # Null THEN found
              ELSE ScanRetestLongLoop(bars, ind, breakoutSignal, i + 1, endIndex) :
              found \in {RetestLongAt(bars, ind, breakoutSignal, i)}})

scanRetestLong(bars, ind, breakoutSignal) ==
    LET startIndex == breakoutSignal.breakoutBarIndex + 1
        endIndex == IF startIndex + RETEST_WINDOW_BARS < Len(bars)
                    THEN startIndex + RETEST_WINDOW_BARS ELSE Len(bars)
    IN ScanRetestLongLoop(bars, ind, breakoutSignal, startIndex, endIndex)

\* One iteration of the loop of scanRetestShort
RetestShortAt(bars, ind, breakoutSignal, i) ==
    LET high == At(bars, i).high
        close == At(ind.closes, i)
        clusterInfo == breakoutSignal.clusterInfo
        distFromMean == JAbs(JSub(high, clusterInfo.clusterMean))
    IN IF JGt(distFromMean, RetestTolerance(clusterInfo)) THEN Null
       ELSE IF JGt(close, clusterInfo.clusterHigh) THEN Null
       ELSE RetestSignalOf(bars, ind, breakoutSignal, i, high, "retest_short", "short")

RECURSIVE ScanRetestShortLoop(_, _, _, _, _)
ScanRetestShortLoop(bars, ind, breakoutSignal, i, endIndex) ==
    IF i >= endIndex THEN Null
    ELSE The({IF found # Null THEN found
              ELSE ScanRetestShortLoop(bars, ind, breakoutSignal, i + 1, endIndex) :
              found \in {RetestShortAt(bars, ind, breakoutSignal, i)}})

scanRetestShort(bars, ind, breakoutSignal) ==
    LET startIndex == breakoutSignal.breakoutBarIndex + 1
        endIndex == IF startIndex + RETEST_WINDOW_BARS < Len(bars)
                    THEN startIndex + RETEST_WINDOW_BARS ELSE Len(bars)
    IN ScanRetestShortLoop(bars, ind, breakoutSignal, startIndex, endIndex)

IsRetest(signal) == signal.signalType \in {"retest_long", "retest_short"}

calculateSignalScore(signal) ==
    IF signal.signalType = "retest_long" \/ signal.signalType = "retest_short"
    THEN LET weights == SIGNAL_SCORE_WEIGHTS.retest
         IN JAdd(JAdd(JMul(weights.density, signal.parentBreakout.clusterInfo.densityScore),
                      JMul(weights.breakout, signal.parentBreakout.breakoutScore)),
                 JMul(weights.retest, signal.retestScore))
    ELSE LET weights == SIGNAL_SCORE_WEIGHTS.breakout
         IN JAdd(JMul(weights.density, signal.clusterInfo.densityScore),
                 JMul(weights.breakout, signal.breakoutScore))

----
\* Specification of the scanners: a K-line series is fixed, its indicators are
\* computed, and each scanner is applied to it once, in the order in which
\* scanAssetTimeframe applies them

Bar(open, high, low, close, volume) ==
    [openTime |-> 0, open |-> open, high |-> high, low |-> low, close |-> close,
     volume |-> volume]

\* A quiet bar at 100, a bar that rallies 2% off a low of 100, and two
\* narrow bars without volume just above and just below 100
FlatBar == Bar(FinInt(100), FinInt(100), FinInt(100), FinInt(100), FinInt(1))
UpBar == Bar(FinInt(100), FinInt(102), FinInt(100), FinInt(102), FinInt(2))
SmallUpBar ==
    Bar(Fin(Dec(1004, -1)), Fin(Dec(1004, -1)), Fin(Dec(1004, -1)), Fin(Dec(1004, -1)),
        FinInt(0))
SmallDownBar ==
    Bar(Fin(Dec(996, -1)), Fin(Dec(996, -1)), Fin(Dec(996, -1)), Fin(Dec(996, -1)),
        FinInt(0))

BarShapes == {FlatBar, UpBar, SmallUpBar, SmallDownBar}

\* The first MALong bars: a flat market, or one that moved once
Warmups ==
    {[k \in 1..MALong |-> FlatBar],
     [k \in 1..MALong |-> IF k = 2 THEN SmallUpBar ELSE FlatBar]}

\* openTime of the bar at index i of a series starting at time base
Timed(bars, base) == [k \in 1..Len(bars) |-> [bars[k] EXCEPT !.openTime = base + k - 1]]

KlineSeries ==
    {Timed(w \o r, 0) : w \in Warmups, r \in SeqsUpTo(BarShapes, MaxRecentBars)}

IsSignal(x) == x # NoResult /\ x # Null

InitSignals ==
    /\ IdleScripts
    /\ klines \in KlineSeries
    /\ indicators = calculateAllIndicators(klines)
    /\ breakoutUp = NoResult /\ breakoutDown = NoResult
    /\ retestLong = NoResult /\ retestShort = NoResult
    /\ IdlePercentile /\ IdleScoring /\ IdleWeights /\ IdleExtract
    /\ IdleStore /\ IdlePortfolio

CallScanBreakoutUp ==
    /\ breakoutUp = NoResult
    /\ breakoutUp' = scanBreakoutUp(klines, indicators, SCAN_LOOKBACK_BARS)
    /\ UNCHANGED <<pctArray, pctCalls, allAssetsFactors, rawFactors, factorScores,
                   rules, assetScores, targetWeights, allocation, marketData, computed,
                   klines, indicators, breakoutDown, retestLong, retestShort,
                   technicalSignals, lastScan, factorSnapshots, portfolioSuggestions,
                   suggestionResult,
                   chat, updater, scanners, report>>

CallScanBreakoutDown ==
    /\ breakoutUp # NoResult
    /\ breakoutDown = NoResult
    /\ breakoutDown' = scanBreakoutDown(klines, indicators, SCAN_LOOKBACK_BARS)
    /\ UNCHANGED <<pctArray, pctCalls, allAssetsFactors, rawFactors, factorScores,
                   rules, assetScores, targetWeights, allocation, marketData, computed,
                   klines, indicators, breakoutUp, retestLong, retestShort,
                   technicalSignals, lastScan, factorSnapshots, portfolioSuggestions,
                   suggestionResult,
                   chat, updater, scanners, report>>

CallScanRetestLong ==
    /\ breakoutDown # NoResult
    /\ IsSignal(breakoutUp)
    /\ retestLong = NoResult
    /\ retestLong' = scanRetestLong(klines, indicators, breakoutUp)
    /\ UNCHANGED <<pctArray, pctCalls, allAssetsFactors, rawFactors, factorScores,
                   rules, assetScores, targetWeights, allocation, marketData, computed,
                   klines, indicators, breakoutUp, breakoutDown, retestShort,
                   technicalSignals, lastScan, factorSnapshots, portfolioSuggestions,
                   suggestionResult,
                   chat, updater, scanners, report>>

CallScanRetestShort ==
    /\ IsSignal(breakoutUp) => retestLong # NoResult
    /\ IsSignal(breakoutDown)
    /\ retestShort = NoResult
    /\ retestShort' = scanRetestShort(klines, indicators, breakoutDown)
    /\ UNCHANGED <<pctArray, pctCalls, allAssetsFactors, rawFactors, factorScores,
                   rules, assetScores, targetWeights, allocation, marketData, computed,
                   klines, indicators, breakoutUp, breakoutDown, retestLong,
                   technicalSignals, lastScan, factorSnapshots, portfolioSuggestions,
                   suggestionResult,
                   chat, updater, scanners, report>>

NextSignals ==
    \/ CallScanBreakoutUp
    \/ CallScanBreakoutDown
    \/ CallScanRetestLong
    \/ CallScanRetestShort

SpecSignals == InitSignals /\ [][NextSignals]_vars

----
\* Properties of the scanners

CloseAt(i) == At(klines, i).close

\* scanBreakoutUp / scanBreakoutDown has just returned a signal, or null
UpReturned == breakoutUp # NoResult /\ breakoutDown = NoResult
DownReturned == breakoutDown # NoResult /\ retestLong = NoResult /\ retestShort = NoResult

\* C11: a breakout returned by scanBreakoutUp at bar t1 carries the cluster
\* computed at t0 = t1 - 1, whose density score is at least the minimum, with
\* close[t0] <= clusterHigh and close[t1] > clusterHigh * (1 + buffer); one
\* returned by scanBreakoutDown has close[t0] >= clusterLow and
\* close[t1] < clusterLow * (1 - buffer).
C11_BreakoutConditions ==
    /\ (UpReturned /\ IsSignal(breakoutUp)) =>
          LET t1 == breakoutUp.breakoutBarIndex
              cluster == ClusterAt(indicators, t1 - 1)
          IN /\ cluster # Null
             /\ breakoutUp.clusterInfo = cluster
             /\ JGte(cluster.densityScore, MIN_DENSITY_SCORE_FOR_BREAKOUT)
             /\ JLte(CloseAt(t1 - 1), cluster.clusterHigh)
             /\ JGt(CloseAt(t1),
                    JMul(cluster.clusterHigh, JAdd(FinInt(1), BREAKOUT_BUFFER)))
    /\ (DownReturned /\ IsSignal(breakoutDown)) =>
          LET t1 == breakoutDown.breakoutBarIndex
              cluster == ClusterAt(indicators, t1 - 1)
          IN /\ cluster # Null
             /\ breakoutDown.clusterInfo = cluster
             /\ JGte(cluster.densityScore, MIN_DENSITY_SCORE_FOR_BREAKOUT)
             /\ JGte(CloseAt(t1 - 1), cluster.clusterLow)
             /\ JLt(CloseAt(t1),
                    JMul(cluster.clusterLow, JSub(FinInt(1), BREAKOUT_BUFFER)))

\* Both scanners returned a breakout of the same series, out of a cluster of
\* non-zero width
C11_Witness ==
    /\ IsSignal(breakoutUp) /\ IsSignal(breakoutDown)
    /\ JGt(breakoutUp.clusterInfo.clusterWidth, FinInt(0))
    /\ JGt(breakoutDown.clusterInfo.clusterWidth, FinInt(0))

\* The bar indices the breakout scanners visit
ScannedRange == SCAN_LOOKBACK_BARS..(Len(klines) - 1)

\* Bar t1 meets the cluster, price and MACD conditions of an upward breakout
QualifiesUp(t1) ==
    LET cluster == ClusterAt(indicators, t1 - 1)
    IN /\ cluster # Null
       /\ JGte(cluster.densityScore, MIN_DENSITY_SCORE_FOR_BREAKOUT)
       /\ JLte(CloseAt(t1 - 1), cluster.clusterHigh)
       /\ JGt(CloseAt(t1), JMul(cluster.clusterHigh, JAdd(FinInt(1), BREAKOUT_BUFFER)))
       /\ checkMACDConfirmation(indicators.macd, t1, "long", MACD_CONFIRMATION_BARS)

\* Bar t1 meets the conditions of a downward breakout
QualifiesDown(t1) ==
    LET cluster == ClusterAt(indicators, t1 - 1)
    IN /\ cluster # Null
       /\ JGte(cluster.densityScore, MIN_DENSITY_SCORE_FOR_BREAKOUT)
       /\ JGte(CloseAt(t1 - 1), cluster.clusterLow)
       /\ JLt(CloseAt(t1), JMul(cluster.clusterLow, JSub(FinInt(1), BREAKOUT_BUFFER)))
       /\ checkMACDConfirmation(indicators.macd, t1, "short", MACD_CONFIRMATION_BARS)

\* C12: the breakout scanners return the most recent qualifying bar: the bar
\* returned qualifies and no later bar does, and null is returned only when no
\* bar of the scanned range qualifies.
C12_MostRecentBreakout ==
    /\ (UpReturned /\ IsSignal(breakoutUp)) =>
          /\ breakoutUp.breakoutBarIndex \in ScannedRange
          /\ QualifiesUp(breakoutUp.breakoutBarIndex)
          /\ \A t \in ScannedRange : t > breakoutUp.breakoutBarIndex => ~QualifiesUp(t)
    /\ (UpReturned /\ breakoutUp = Null) => \A t \in ScannedRange : ~QualifiesUp(t)
    /\ (DownReturned /\ IsSignal(breakoutDown)) =>
          /\ breakoutDown.breakoutBarIndex \in ScannedRange
          /\ QualifiesDown(breakoutDown.breakoutBarIndex)
          /\ \A t \in ScannedRange : t > breakoutDown.breakoutBarIndex => ~QualifiesDown(t)
    /\ (DownReturned /\ breakoutDown = Null) => \A t \in ScannedRange : ~QualifiesDown(t)

\* An older bar qualified too and was not the one reported
C12_Witness ==
    /\ UpReturned /\ IsSignal(breakoutUp)
    /\ \E t \in ScannedRange : t < breakoutUp.breakoutBarIndex /\ QualifiesUp(t)

\* The low (long) or high (short) of bar i is within the retest tolerance of
\* the cluster mean of the breakout
TouchesCluster(breakoutSignal, i) ==
    LET touch == IF breakoutSignal.direction = "long" THEN At(klines, i).low
                 ELSE At(klines, i).high
    IN JLte(JAbs(JSub(touch, breakoutSignal.clusterInfo.clusterMean)),
            RetestTolerance(breakoutSignal.clusterInfo))

\* C13: a retest returned by scanRetestLong closes at or above the clusterLow
\* of its parent breakout, one returned by scanRetestShort at or below its
\* clusterHigh.
C13_RetestCloseInsideBoundary ==
    /\ IsSignal(retestLong) =>
          /\ retestLong.parentBreakout = breakoutUp
          /\ JGte(CloseAt(retestLong.retestBarIndex), breakoutUp.clusterInfo.clusterLow)
    /\ IsSignal(retestShort) =>
          /\ retestShort.parentBreakout = breakoutDown
          /\ JLte(CloseAt(retestShort.retestBarIndex), breakoutDown.clusterInfo.clusterHigh)

\* A retest was returned after a bar that touched the cluster but closed
\* below clusterLow had been passed over
C13_Witness ==
    /\ IsSignal(retestLong)
    /\ \E j \in (breakoutUp.breakoutBarIndex + 1)..(retestLong.retestBarIndex - 1) :
          /\ TouchesCluster(breakoutUp, j)
          /\ JLt(CloseAt(j), breakoutUp.clusterInfo.clusterLow)

\* Bar i meets the retest conditions of the breakout
RetestQualifies(breakoutSignal, i) ==
    /\ TouchesCluster(breakoutSignal, i)
    /\ IF breakoutSignal.direction = "long"
       THEN JGte(CloseAt(i), breakoutSignal.clusterInfo.clusterLow)
       ELSE JLte(CloseAt(i), breakoutSignal.clusterInfo.clusterHigh)

\* The bars after the breakout that the retest scanners may report
RetestWindow(breakoutSignal) ==
    {i \in 0..(Len(klines) - 1) :
        /\ i >= breakoutSignal.breakoutBarIndex + 1
        /\ i <= breakoutSignal.breakoutBarIndex + RETEST_WINDOW_BARS}

\* C14 (as stated): no retest is returned at bar i when some bar strictly
\* between the breakout bar and i closed below clusterLow (long) or above
\* clusterHigh (short).
C14_NoRetestAfterInvalidation ==
    /\ IsSignal(retestLong) =>
          \A j \in (breakoutUp.breakoutBarIndex + 1)..(retestLong.retestBarIndex - 1) :
              ~JLt(CloseAt(j), breakoutUp.clusterInfo.clusterLow)
    /\ IsSignal(retestShort) =>
          \A j \in (breakoutDown.breakoutBarIndex + 1)..(retestShort.retestBarIndex - 1) :
              ~JGt(CloseAt(j), breakoutDown.clusterInfo.clusterHigh)

\* scanRetestLong returned the second bar after the breakout although the
\* first one had closed below clusterLow
C14_RetestAfterInvalidation ==
    /\ IsSignal(retestLong)
    /\ retestLong.retestBarIndex = breakoutUp.breakoutBarIndex + 2
    /\ JLt(CloseAt(breakoutUp.breakoutBarIndex + 1), breakoutUp.clusterInfo.clusterLow)

\* C15: the retest scanners return the first bar after the breakout that
\* meets the retest conditions, looking only at the RETEST_WINDOW_BARS bars
\* after the breakout bar, and null when none of them does (in particular
\* when the breakout bar is the last bar).
C15_FirstRetestInWindow ==
    /\ IsSignal(retestLong) =>
          /\ retestLong.retestBarIndex \in RetestWindow(breakoutUp)
          /\ RetestQualifies(breakoutUp, retestLong.retestBarIndex)
          /\ \A j \in RetestWindow(breakoutUp) :
                j < retestLong.retestBarIndex => ~RetestQualifies(breakoutUp, j)
    /\ retestLong = Null =>
          \A j \in RetestWindow(breakoutUp) : ~RetestQualifies(breakoutUp, j)
    /\ IsSignal(retestShort) =>
          /\ retestShort.retestBarIndex \in RetestWindow(breakoutDown)
          /\ RetestQualifies(breakoutDown, retestShort.retestBarIndex)
          /\ \A j \in RetestWindow(breakoutDown) :
                j < retestShort.retestBarIndex => ~RetestQualifies(breakoutDown, j)
    /\ retestShort = Null =>
          \A j \in RetestWindow(breakoutDown) : ~RetestQualifies(breakoutDown, j)
    /\ (IsSignal(breakoutUp) /\ breakoutUp.breakoutBarIndex = Len(klines) - 1)
          => retestLong \in {NoResult, Null}
    /\ (IsSignal(breakoutDown) /\ breakoutDown.breakoutBarIndex = Len(klines) - 1)
          => retestShort \in {NoResult, Null}

\* null was returned although a bar past the window meets the retest
\* conditions
C15_Witness ==
    /\ retestLong = Null
    /\ \E j \in 0..(Len(klines) - 1) :
          /\ j > breakoutUp.breakoutBarIndex + RETEST_WINDOW_BARS
          /\ RetestQualifies(breakoutUp, j)

\* A number within [0, 1] (NaN is not)
InUnitRange(x) == JGte(x, FinInt(0)) /\ JLte(x, FinInt(1))

\* C16 (as stated): every densityScore, breakoutScore and retestScore the
\* scanners produce is a number within [0, 1]; none is NaN.
C16_SubScoresInUnitRange ==
    /\ UpReturned =>
          \A t \in ScannedRange :
              ClusterAt(indicators, t - 1) # Null
                  => InUnitRange(ClusterAt(indicators, t - 1).densityScore)
    /\ IsSignal(breakoutUp) => InUnitRange(breakoutUp.breakoutScore)
    /\ IsSignal(breakoutDown) => InUnitRange(breakoutDown.breakoutScore)
    /\ IsSignal(retestLong) => InUnitRange(retestLong.retestScore)
    /\ IsSignal(retestShort) => InUnitRange(retestShort.retestScore)

\* Six equal moving averages and a retest low exactly at their value: the
\* retest score is NaN
C16_RetestScoreNaN ==
    /\ IsSignal(retestLong)
    /\ breakoutUp.clusterInfo.clusterWidth = FinInt(0)
    /\ At(klines, retestLong.retestBarIndex).low = breakoutUp.clusterInfo.clusterMean
    /\ JIsNaN(retestLong.retestScore)

\* C17: a breakout enters at the close of the breakout bar; its stop is
\* clusterLow - offset (long) or clusterHigh + offset (short) with
\* offset = max(clusterWidth * 0.5, clusterMean * 0.005); its take-profits are
\* entry + risk and entry + 2 * risk (long), entry - risk and entry - 2 * risk
\* (short), with risk = |entry - stop|.
C17_BreakoutLevels ==
    \A signal \in {breakoutUp, breakoutDown} :
        IsSignal(signal) =>
            LET cluster == signal.clusterInfo
                offset == JMax(JMul(cluster.clusterWidth, Fin(Dec(5, -1))),
                               JMul(cluster.clusterMean, Fin(Dec(5, -3))))
                risk == JAbs(JSub(signal.entryPrice, signal.stopLoss))
            IN /\ signal.entryPrice = CloseAt(signal.breakoutBarIndex)
               /\ signal.direction = "long" =>
                     /\ signal.stopLoss = JSub(cluster.clusterLow, offset)
                     /\ signal.takeProfit1 = JAdd(signal.entryPrice, risk)
                     /\ signal.takeProfit2 = JAdd(signal.entryPrice, JMul(risk, FinInt(2)))
               /\ signal.direction = "short" =>
                     /\ signal.stopLoss = JAdd(cluster.clusterHigh, offset)
                     /\ signal.takeProfit1 = JSub(signal.entryPrice, risk)
                     /\ signal.takeProfit2 = JSub(signal.entryPrice, JMul(risk, FinInt(2)))

\* A long and a short breakout of one series, one of them out of a cluster
\* wide enough for clusterWidth * 0.5 to be the offset
C17_Witness ==
    /\ IsSignal(breakoutUp) /\ IsSignal(breakoutDown)
    /\ breakoutUp.direction = "long" /\ breakoutDown.direction = "short"
    /\ \E signal \in {breakoutUp, breakoutDown} :
          JGt(JMul(signal.clusterInfo.clusterWidth, Fin(Dec(5, -1))),
              JMul(signal.clusterInfo.clusterMean, Fin(Dec(5, -3))))

----
\* ta/scanSignals.ts: scanAssetTimeframe for one (asset, timeframe)

MIN_KLINES == 4
MaxBase == 1
MaxStoreBars == 2

\* if (breakoutUp && breakoutDown) ... else if (breakoutUp) ... else if (breakoutDown)
LatestBreakout(up, down) ==
    IF up # Null /\ down # Null
    THEN (IF up.breakoutBarIndex > down.breakoutBarIndex THEN up ELSE down)
    ELSE IF up # Null THEN up
    ELSE IF down # Null THEN down
    ELSE Null

\* retestSignal: the retest scanner of the latest breakout's direction
RetestOfLatest(bars, ind, latestBreakout) ==
    IF latestBreakout = Null THEN Null
    ELSE IF latestBreakout.direction = "long" THEN scanRetestLong(bars, ind, latestBreakout)
    ELSE scanRetestShort(bars, ind, latestBreakout)

\* signalData built from the plain breakout whether or not a retest was found
SignalDataOfBreakout(retestSignal, latestBreakout) ==
    [signalType |-> latestBreakout.signalType,
     direction |-> latestBreakout.direction,
     source |-> "cluster_breakout",
     densityScore |-> latestBreakout.clusterInfo.densityScore,
     breakoutScore |-> latestBreakout.breakoutScore,
     retestScore |-> Null,
     signalScore |-> calculateSignalScore(latestBreakout),
     breakoutBarTime |-> latestBreakout.breakoutBarTime,
     entryPrice |-> latestBreakout.entryPrice,
     stopLoss |-> latestBreakout.stopLoss,
     takeProfit1 |-> latestBreakout.takeProfit1,
     takeProfit2 |-> latestBreakout.takeProfit2,
     clusterMean |-> latestBreakout.clusterInfo.clusterMean,
     clusterHigh |-> latestBreakout.clusterInfo.clusterHigh,
     clusterLow |-> latestBreakout.clusterInfo.clusterLow,
     clusterWidth |-> latestBreakout.clusterInfo.clusterWidth,
     densityRatio |-> latestBreakout.clusterInfo.densityRatio]

\* signalToSave = retestSignal || latestBreakout, and the signalData made of it
SignalDataOf(retestSignal, latestBreakout) ==
    LET signalToSave == IF retestSignal # Null THEN retestSignal ELSE latestBreakout
        isRetest == retestSignal # Null
        cluster == IF isRetest THEN signalToSave.parentBreakout.clusterInfo
                   ELSE signalToSave.clusterInfo
    IN [signalType |-> signalToSave.signalType,
        direction |-> signalToSave.direction,
        source |-> IF isRetest THEN "retest" ELSE "cluster_breakout",
        densityScore |-> cluster.densityScore,
        breakoutScore |-> IF isRetest THEN signalToSave.parentBreakout.breakoutScore
                          ELSE signalToSave.breakoutScore,
        retestScore |-> IF isRetest THEN signalToSave.retestScore ELSE Null,
        signalScore |-> calculateSignalScore(signalToSave),
        breakoutBarTime |-> IF isRetest THEN signalToSave.retestBarTime
                            ELSE signalToSave.breakoutBarTime,
        entryPrice |-> signalToSave.entryPrice,
        stopLoss |-> signalToSave.stopLoss,
        takeProfit1 |-> signalToSave.takeProfit1,
        takeProfit2 |-> signalToSave.takeProfit2,
        clusterMean |-> cluster.clusterMean,
        clusterHigh |-> cluster.clusterHigh,
        clusterLow |-> cluster.clusterLow,
        clusterWidth |-> cluster.clusterWidth,
        densityRatio |-> cluster.densityRatio]

\* What one run computes from the K-lines it fetched, up to signalData;
\* outcome "insufficient" and "none" are the two early returns
ScanKlines(bars) ==
    IF Len(bars) < MIN_KLINES
    THEN [outcome |-> "insufficient", latestBreakout |-> Null, retestSignal |-> Null,
          signalData |-> Null]
    ELSE The({The({The({The({
        IF retestSignal = Null /\ latestBreakout = Null
        THEN [outcome |-> "none", latestBreakout |-> Null, retestSignal |-> Null,
              signalData |-> Null]
        ELSE [outcome |-> "signal", latestBreakout |-> latestBreakout,
              retestSignal |-> retestSignal,
              signalData |-> SignalDataOf(retestSignal, latestBreakout)] :
        retestSignal \in {RetestOfLatest(bars, ind, latestBreakout)}}) :
        latestBreakout \in {LatestBreakout(up, down)}}) :
        up \in {scanBreakoutUp(bars, ind, SCAN_LOOKBACK_BARS)},
        down \in {scanBreakoutDown(bars, ind, SCAN_LOOKBACK_BARS)}}) :
        ind \in {calculateAllIndicators(bars)}})

\* prisma.technicalSignal.findFirst({where: {assetId, timeframe}, orderBy: {createdAt: 'desc'}})
FindFirstSignal(rows) == IF rows = <<>> THEN Null ELSE rows[Len(rows)]

\* The table after a run that replaces the stored record by any signal that is
\* not earlier
SaveSignalNotEarlier(rows, signalData) ==
    LET existing == FindFirstSignal(rows)
    IN IF existing # Null
       THEN IF signalData.breakoutBarTime >= existing.data.breakoutBarTime
            THEN [rows EXCEPT ![Len(rows)] = [id |-> existing.id, data |-> signalData]]
            ELSE rows
       ELSE Append(rows, [id |-> Len(rows) + 1, data |-> signalData])

\* The table after findFirst and then update, skip or create
SaveSignal(rows, signalData) ==
    LET existing == FindFirstSignal(rows)
    IN IF existing # Null
       THEN IF signalData.breakoutBarTime > existing.data.breakoutBarTime
            THEN [rows EXCEPT ![Len(rows)] = [id |-> existing.id, data |-> signalData]]
            ELSE rows
       ELSE Append(rows, [id |-> Len(rows) + 1, data |-> signalData])

\* Which of update, skip and create the run took
SaveOutcome(rows, signalData) ==
    LET existing == FindFirstSignal(rows)
    IN IF existing # Null
       THEN IF signalData.breakoutBarTime > existing.data.breakoutBarTime
            THEN "updated" ELSE "skipped"
       ELSE "created"

\* The bars the exchange may return after the warm-up: quiet bars, rallies
\* and small declines
StoreShapes == {FlatBar, UpBar, SmallDownBar}

\* A fetch returns a series whose first bar opened at some time base, or too
\* few bars
FetchedSeries ==
    {Timed(w \o r, base) :
        w \in {[k \in 1..MALong |-> FlatBar]},
        r \in SeqsUpTo(StoreShapes, MaxStoreBars),
        base \in 0..MaxBase}
    \cup {Timed([k \in 1..(MIN_KLINES - 1) |-> FlatBar], base) : base \in 0..MaxBase}

\* ScanKlines of every series a fetch may return
ScanResults == [fetched \in FetchedSeries |-> ScanKlines(fetched)]

InitStore ==
    /\ IdleScripts
    /\ technicalSignals = <<>>
    /\ lastScan = NoResult
    /\ IdlePercentile /\ IdleScoring /\ IdleWeights /\ IdleExtract
    /\ IdleSignals /\ IdlePortfolio

ScanAssetTimeframe ==
    \E fetched \in FetchedSeries :
        \E scan \in {ScanResults[fetched]} :
            /\ IF scan.outcome = "signal"
               THEN /\ technicalSignals' = SaveSignal(technicalSignals, scan.signalData)
                    /\ lastScan' = [scan EXCEPT !.outcome =
                                       SaveOutcome(technicalSignals, scan.signalData)]
               ELSE /\ technicalSignals' = technicalSignals
                    /\ lastScan' = scan
            /\ UNCHANGED <<pctArray, pctCalls, allAssetsFactors, rawFactors, factorScores,
                           rules, assetScores, targetWeights, allocation, marketData,
                           computed, klines, indicators, breakoutUp, breakoutDown,
                           retestLong, retestShort, factorSnapshots, portfolioSuggestions,
                           suggestionResult,
                           chat, updater, scanners, report>>

\* fetchKlines throws: the catch block logs and the run ends
ScanFetchError ==
    /\ lastScan' = [outcome |-> "error", latestBreakout |-> Null, retestSignal |-> Null,
                    signalData |-> Null]
    /\ UNCHANGED <<pctArray, pctCalls, allAssetsFactors, rawFactors, factorScores,
                   rules, assetScores, targetWeights, allocation, marketData, computed,
                   klines, indicators, breakoutUp, breakoutDown, retestLong, retestShort,
                   technicalSignals, factorSnapshots, portfolioSuggestions,
                   suggestionResult,
                   chat, updater, scanners, report>>

NextStore ==
    \/ ScanAssetTimeframe
    \/ ScanFetchError

SpecStore == InitStore /\ [][NextStore]_vars

\* The run just ended reached the save step
RunSaved == lastScan # NoResult /\ lastScan.outcome \in {"created", "updated", "skipped"}
\* The run just ended wrote its signalData to the table
RunWrote == lastScan # NoResult /\ lastScan.outcome \in {"created", "updated"}

\* C18: in one run, when a retest of the latest breakout is found the record
\* to save is the retest: source 'retest', the retest's type, score and bar
\* time, and signalScore = 0.3 * parent density + 0.4 * parent breakout score
\* + 0.3 * retest score; the plain breakout (source 'cluster_breakout',
\* retestScore null) is the record only when no retest was found; a run that
\* writes stores exactly that record.
C18_RetestSupersedesBreakout ==
    RunSaved =>
        LET d == lastScan.signalData
            r == lastScan.retestSignal
            b == lastScan.latestBreakout
        IN /\ r # Null =>
                 /\ d.source = "retest"
                 /\ d.signalType = r.signalType
                 /\ d.signalType \in {"retest_long", "retest_short"}
                 /\ d.retestScore = r.retestScore /\ d.retestScore # Null
                 /\ d.breakoutBarTime = r.retestBarTime
                 /\ r.parentBreakout = b
                 /\ d.densityScore = b.clusterInfo.densityScore
                 /\ d.breakoutScore = b.breakoutScore
                 /\ d.signalScore =
                        JAdd(JAdd(JMul(Fin(Dec(3, -1)), b.clusterInfo.densityScore),
                                  JMul(Fin(Dec(4, -1)), b.breakoutScore)),
                             JMul(Fin(Dec(3, -1)), r.retestScore))
           /\ d.source = "cluster_breakout" =>
                 /\ r = Null
                 /\ d.retestScore = Null
                 /\ d.signalType = b.signalType
                 /\ d.breakoutBarTime = b.breakoutBarTime
           /\ d.source \in {"retest", "cluster_breakout"}
           /\ RunWrote => FindFirstSignal(technicalSignals).data = d

\* A run found a retest and stored it over the record of an earlier run
C18_Witness ==
    /\ lastScan # NoResult /\ lastScan.outcome = "updated"
    /\ lastScan.retestSignal # Null
    /\ FindFirstSignal(technicalSignals).data.source = "retest"

\* breakoutBarTime of the stored record of the (asset, timeframe)
StoredBarTime == FindFirstSignal(technicalSignals).data.breakoutBarTime

\* C19: over any sequence of runs, once a record is stored it stays the one
\* record, its bar time never decreases, it changes only to the signal of
\* the run and only when that signal's bar time is strictly later, and a run
\* that finds no signal, or a signal with an equal or earlier bar time,
\* leaves the table unchanged.
C19_ReplacedOnlyByLater ==
    [][/\ technicalSignals # <<>> =>
              /\ Len(technicalSignals') = Len(technicalSignals)
              /\ StoredBarTime' >= StoredBarTime
              /\ technicalSignals' # technicalSignals =>
                     /\ StoredBarTime' > StoredBarTime
                     /\ FindFirstSignal(technicalSignals').data = lastScan'.signalData
       /\ lastScan'.signalData = Null => technicalSignals' = technicalSignals
       /\ ( /\ technicalSignals # <<>>
            /\ lastScan'.signalData # Null
            /\ lastScan'.signalData.breakoutBarTime <= StoredBarTime )
              => technicalSignals' = technicalSignals]_vars

\* A run found a signal whose bar time is earlier than the stored one and
\* skipped it
C19_Witness ==
    /\ lastScan # NoResult /\ lastScan.outcome = "skipped"
    /\ lastScan.signalData.breakoutBarTime < StoredBarTime
    /\ lastScan.signalData # FindFirstSignal(technicalSignals).data

----
\* Portfolio suggestions of one date: recomputeFactors writes the factor
\* snapshots, generatePortfolioSuggestion turns them into stored suggestions,
\* getLatestPortfolioSuggestion reads the suggestions back

DEFAULT_SCORING_RULES ==
    [weightThresholds |->
        <<[minScore |-> RInt(4), maxScore |-> Undefined, targetWeight |-> Rat(1, 25)],
          [minScore |-> Rat(7, 2), maxScore |-> RInt(4), targetWeight |-> Rat(1, 50)],
          [minScore |-> RInt(3), maxScore |-> Rat(7, 2), targetWeight |-> Rat(1, 100)],
          [minScore |-> RInt(0), maxScore |-> RInt(3), targetWeight |-> RInt(0)]>>,
     allowNegativeWeights |-> FALSE,
     minWeightThreshold |-> Rat(1, 200)]

\* The asset universe in the order prisma.asset.findMany returns it
UniverseOrder == <<"BTC", "ETH">>
\* Total scores a recomputation may give: below every band, and in the bands
\* of 2% and 4%
SnapshotScores == {RInt(2), Rat(7, 2), RInt(4)}

\* findUnique by (assetId, date) and then update or create, for a table of
\* rows in creation order
UpsertRow(rows, row) ==
    IF \E i \in DOMAIN rows : rows[i].assetId = row.assetId
    THEN [i \in DOMAIN rows |-> IF rows[i].assetId = row.assetId THEN row ELSE rows[i]]
    ELSE Append(rows, row)

\* The second loop of recomputeFactors over the assets 1..n of the universe
\* whose factors were computed
RECURSIVE SaveSnapshots(_, _, _, _)
SaveSnapshots(rows, done, scores, n) ==
    IF n = 0 THEN rows
    ELSE The({IF UniverseOrder[n] \in done
              THEN UpsertRow(before, [assetId |-> UniverseOrder[n],
                                      totalScore |-> scores[UniverseOrder[n]]])
              ELSE before :
              before \in {SaveSnapshots(rows, done, scores, n - 1)}})

\* .sort((a, b) => b.totalScore - a.totalScore): stable, highest score first
RECURSIVE InsertByScore(_, _)
InsertByScore(x, sorted) ==
    IF sorted = <<>> THEN <<x>>
    ELSE IF RLt(Head(sorted).totalScore, x.totalScore) THEN <<x>> \o sorted
    ELSE <<Head(sorted)>> \o InsertByScore(x, Tail(sorted))
RECURSIVE SortByScoreDesc(_)
SortByScoreDesc(s) ==
    IF s = <<>> THEN <<>>
    ELSE InsertByScore(s[Len(s)], SortByScoreDesc(SubSeq(s, 1, Len(s) - 1)))

\* array.filter(a => a.targetWeight > 0)
RECURSIVE FilterPositiveWeight(_)
FilterPositiveWeight(s) ==
    IF s = <<>> THEN <<>>
    ELSE IF RLt(RInt(0), Head(s).targetWeight)
         THEN <<Head(s)>> \o FilterPositiveWeight(Tail(s))
         ELSE FilterPositiveWeight(Tail(s))

\* weightAllocation.adjustedWeights.get(assetId) || 0
AdjustedWeightOf(weightAllocation, assetId) ==
    IF assetId \in MapKeys(weightAllocation.adjustedWeights)
    THEN weightAllocation.adjustedWeights[MapGet(weightAllocation.adjustedWeights, assetId)][2]
    ELSE RInt(0)

\* The allocations generatePortfolioSuggestion builds from the snapshots
SuggestedAllocations(snapshots) ==
    LET list == [i \in DOMAIN snapshots |->
                    [assetId |-> snapshots[i].assetId,
                     scores |-> [totalScore |-> snapshots[i].totalScore]]]
        weightAllocation == generateWeightAllocation(list, DEFAULT_SCORING_RULES)
        mapped == [i \in DOMAIN snapshots |->
                      [assetId |-> snapshots[i].assetId,
                       totalScore |-> snapshots[i].totalScore,
                       targetWeight |-> calculateTargetWeight(list[i].scores,
                                                              DEFAULT_SCORING_RULES),
                       adjustedWeight |-> AdjustedWeightOf(weightAllocation,
                                                           snapshots[i].assetId)]]
    IN SortByScoreDesc(FilterPositiveWeight(mapped))

\* The loop of savePortfolioSuggestionToDB over allocations[1..n]
RECURSIVE savePortfolioSuggestionToDB(_, _, _)
savePortfolioSuggestionToDB(rows, allocations, n) ==
    IF n = 0 THEN rows
    ELSE UpsertRow(savePortfolioSuggestionToDB(rows, allocations, n - 1),
                   [assetId |-> allocations[n].assetId,
                    targetWeight |-> allocations[n].adjustedWeight])

\* totalScore: snapshot?.totalScore || 0
SnapshotScoreOf(snapshots, assetId) ==
    IF \E i \in DOMAIN snapshots : snapshots[i].assetId = assetId
    THEN snapshots[CHOOSE i \in DOMAIN snapshots : snapshots[i].assetId = assetId].totalScore
    ELSE RInt(0)

\* The allocations getLatestPortfolioSuggestion builds from the stored rows
LatestAllocations(suggestions, snapshots) ==
    SortByScoreDesc(FilterPositiveWeight(
        [i \in DOMAIN suggestions |->
            [assetId |-> suggestions[i].assetId,
             totalScore |-> SnapshotScoreOf(snapshots, suggestions[i].assetId),
             targetWeight |-> suggestions[i].targetWeight,
             adjustedWeight |-> suggestions[i].targetWeight]]))

InitPortfolio ==
    /\ IdleScripts
    /\ factorSnapshots = <<>>
    /\ portfolioSuggestions = <<>>
    /\ suggestionResult = NoResult
    /\ IdlePercentile /\ IdleScoring /\ IdleWeights /\ IdleExtract
    /\ IdleSignals /\ IdleStore

\* scripts/recomputeFactors.ts for the date: the assets whose factors could
\* be computed get their snapshot created or updated
RecomputeFactors ==
    \E done \in SUBSET {UniverseOrder[i] : i \in DOMAIN UniverseOrder} :
        \E scores \in [done -> SnapshotScores] :
            /\ done # {}
            /\ factorSnapshots' =
                   SaveSnapshots(factorSnapshots, done, scores, Len(UniverseOrder))
            /\ UNCHANGED <<pctArray, pctCalls, allAssetsFactors, rawFactors, factorScores,
                           rules, assetScores, targetWeights, allocation, marketData,
                           computed, klines, indicators, breakoutUp, breakoutDown,
                           retestLong, retestShort, technicalSignals, lastScan,
                           portfolioSuggestions, suggestionResult,
                           chat, updater, scanners, report>>

\* generatePortfolioSuggestion(date); without snapshots it throws before
\* writing anything
GeneratePortfolioSuggestion ==
    /\ factorSnapshots # <<>>
    /\ \E allocations \in {SuggestedAllocations(factorSnapshots)} :
          /\ portfolioSuggestions' =
                 savePortfolioSuggestionToDB(portfolioSuggestions, allocations,
                                             Len(allocations))
          /\ suggestionResult' = [op |-> "generate", allocations |-> allocations]
    /\ UNCHANGED <<pctArray, pctCalls, allAssetsFactors, rawFactors, factorScores,
                   rules, assetScores, targetWeights, allocation, marketData, computed,
                   klines, indicators, breakoutUp, breakoutDown, retestLong, retestShort,
                   technicalSignals, lastScan, factorSnapshots,
                   chat, updater, scanners, report>>

\* getLatestPortfolioSuggestion(): null without stored suggestions
GetLatestPortfolioSuggestion ==
    /\ suggestionResult' =
           IF portfolioSuggestions = <<>> THEN [op |-> "latest", allocations |-> Null]
           ELSE [op |-> "latest",
                 allocations |-> LatestAllocations(portfolioSuggestions, factorSnapshots)]
    /\ UNCHANGED <<pctArray, pctCalls, allAssetsFactors, rawFactors, factorScores,
                   rules, assetScores, targetWeights, allocation, marketData, computed,
                   klines, indicators, breakoutUp, breakoutDown, retestLong, retestShort,
                   technicalSignals, lastScan, factorSnapshots, portfolioSuggestions,
                   chat, updater, scanners, report>>

\* llm/prompts: .sort((a, b) => b.adjustedWeight - a.adjustedWeight) is
\* Array.prototype.sort: stable, highest weight first, and it sorts the array
\* it is called on
RECURSIVE InsertByWeight(_, _)
InsertByWeight(x, sorted) ==
    IF sorted = <<>> THEN <<x>>
    ELSE IF RLt(Head(sorted).adjustedWeight, x.adjustedWeight) THEN <<x>> \o sorted
    ELSE <<Head(sorted)>> \o InsertByWeight(x, Tail(sorted))
RECURSIVE SortByWeightDesc(_)
SortByWeightDesc(s) ==
    IF s = <<>> THEN <<>>
    ELSE InsertByWeight(s[Len(s)], SortByWeightDesc(SubSeq(s, 1, Len(s) - 1)))

TopHoldingsCount == 5

\* the asset of each element of a list of allocations, in order
AssetOrder(allocations) == [i \in DOMAIN allocations |-> allocations[i].assetId]

\* buildPortfolioReportPrompt(portfolio): the prompt's asset list and top
\* holdings, and portfolio.allocations as the call leaves it
buildPortfolioReportPrompt(allocations) ==
    The({[assetList |-> AssetOrder(allocations),
          topHoldings |-> AssetOrder(SubSeq(sorted, 1,
                              IF Len(sorted) < TopHoldingsCount THEN Len(sorted)
                              ELSE TopHoldingsCount)),
          allocations |-> sorted] :
         sorted \in {SortByWeightDesc(allocations)}})

\* scripts/generateReport.ts: the latest suggestion, or a generated one when
\* none is stored; the prompt; the chat call; the allocation table of the
\* Markdown report.  Without suggestions and snapshots, or when the chat call
\* throws, no report is written.
GenerateReport ==
    \E chatReturned \in BOOLEAN :
        \E generated \in {portfolioSuggestions = <<>>} :
            IF generated /\ factorSnapshots = <<>>
            THEN /\ report' = [written |-> FALSE]
                 /\ UNCHANGED portfolioSuggestions
                 /\ UNCHANGED <<pctArray, pctCalls, allAssetsFactors, rawFactors,
                                factorScores, rules, assetScores, targetWeights,
                                allocation, marketData, computed, klines, indicators,
                                breakoutUp, breakoutDown, retestLong, retestShort,
                                technicalSignals, lastScan, factorSnapshots,
                                suggestionResult, chat, updater, scanners>>
            ELSE \E obtained \in {IF generated THEN SuggestedAllocations(factorSnapshots)
                                  ELSE LatestAllocations(portfolioSuggestions,
                                                         factorSnapshots)} :
                 \E built \in {buildPortfolioReportPrompt(obtained)} :
                     /\ portfolioSuggestions' =
                            IF generated
                            THEN savePortfolioSuggestionToDB(portfolioSuggestions, obtained,
                                                             Len(obtained))
                            ELSE portfolioSuggestions
                     /\ report' =
                            IF chatReturned
                            THEN [written |-> TRUE,
                                  obtained |-> obtained,
                                  assetList |-> built.assetList,
                                  topHoldings |-> built.topHoldings,
                                  table |-> AssetOrder(built.allocations)]
                            ELSE [written |-> FALSE]
                     /\ UNCHANGED <<pctArray, pctCalls, allAssetsFactors, rawFactors,
                                    factorScores, rules, assetScores, targetWeights,
                                    allocation, marketData, computed, klines, indicators,
                                    breakoutUp, breakoutDown, retestLong, retestShort,
                                    technicalSignals, lastScan, factorSnapshots,
                                    suggestionResult, chat, updater, scanners>>

NextPortfolio ==
    \/ RecomputeFactors
    \/ GeneratePortfolioSuggestion
    \/ GetLatestPortfolioSuggestion
    \/ GenerateReport

SpecPortfolio == InitPortfolio /\ [][NextPortfolio]_vars

\* The (asset, weight) pairs of a list of allocations and of the stored rows
AllocationPairs(allocations) ==
    {<<allocations[i].assetId, allocations[i].adjustedWeight>> : i \in DOMAIN allocations}
StoredPairs ==
    {<<portfolioSuggestions[i].assetId, portfolioSuggestions[i].targetWeight>> :
        i \in DOMAIN portfolioSuggestions}

\* C20: after generatePortfolioSuggestion completes, the stored suggestions
\* of the date are exactly the allocations it returned, each with its
\* adjusted weight, and getLatestPortfolioSuggestion would return the same
\* assets and weights.
C20_PersistedEqualsReturned ==
    (suggestionResult # NoResult /\ suggestionResult.op = "generate") =>
        /\ StoredPairs = AllocationPairs(suggestionResult.allocations)
        /\ AllocationPairs(LatestAllocations(portfolioSuggestions, factorSnapshots))
               = AllocationPairs(suggestionResult.allocations)

\* A run selected no asset and the row an earlier run wrote is still stored
C20_StaleRowRemains ==
    /\ suggestionResult # NoResult /\ suggestionResult.op = "generate"
    /\ suggestionResult.allocations = <<>>
    /\ portfolioSuggestions # <<>>
    /\ LatestAllocations(portfolioSuggestions, factorSnapshots) # <<>>

----
\* Specification of the indicators: a K-line series is fixed and
\* calculateAllIndicators is applied to it

MaxIndicatorBars == 5

\* Every series of up to MaxIndicatorBars bars of the four shapes
IndicatorSeries == {Timed(r, 0) : r \in SeqsUpTo(BarShapes, MaxIndicatorBars)}

InitIndicators ==
    /\ IdleScripts
    /\ klines \in IndicatorSeries
    /\ indicators = NoResult
    /\ breakoutUp = NoResult /\ breakoutDown = NoResult
    /\ retestLong = NoResult /\ retestShort = NoResult
    /\ IdlePercentile /\ IdleScoring /\ IdleWeights /\ IdleExtract
    /\ IdleStore /\ IdlePortfolio

CallCalculateAllIndicators ==
    /\ indicators = NoResult
    /\ indicators' = calculateAllIndicators(klines)
    /\ UNCHANGED <<pctArray, pctCalls, allAssetsFactors, rawFactors, factorScores,
                   rules, assetScores, targetWeights, allocation, marketData, computed,
                   klines, breakoutUp, breakoutDown, retestLong, retestShort,
                   technicalSignals, lastScan, factorSnapshots, portfolioSuggestions,
                   suggestionResult,
                   chat, updater, scanners, report>>

NextIndicators == CallCalculateAllIndicators

SpecIndicators == InitIndicators /\ [][NextIndicators]_vars

\* The element at index i of an EMA of the given period, stated from the
\* prices and the element before it
EMAElementOk(prices, ema, period, i) ==
    IF i = 0 THEN At(ema, 0) = At(prices, 0)
    ELSE IF i < period - 1
         THEN At(ema, i) = JDiv(JSum(Slice(prices, 0, i + 1)), FinInt(i + 1))
         ELSE At(ema, i) =
                  JAdd(At(ema, i - 1),
                       JMul(JSub(At(prices, i), At(ema, i - 1)),
                            JDiv(FinInt(2), FinInt(period + 1))))

EMAOk(prices, ema, period) ==
    /\ Len(ema) = Len(prices)
    /\ \A i \in 0..(Len(prices) - 1) :
          /\ ~JIsNaN(At(ema, i))
          /\ At(ema, i).k = "num"
          /\ EMAElementOk(prices, ema, period, i)

\* C21: calculateEMA returns a series as long as its input, without NaN for
\* finite prices; element 0 is the first price, an element at 0 < i <
\* period - 1 is the mean of prices[0..i], and an element at i >= period - 1
\* is prev + (price[i] - prev) * 2 / (period + 1), prev the element before.
C21_EMASeries ==
    indicators # NoResult =>
        /\ EMAOk(indicators.closes, indicators.ema20, MAShort)
        /\ EMAOk(indicators.closes, indicators.ema60, MAMedium)
        /\ EMAOk(indicators.closes, indicators.ema120, MALong)

\* A series whose warm-up mean differs from the price and whose later EMA
\* differs from both the price and the element before it
C21_Witness ==
    /\ indicators # NoResult
    /\ Len(klines) > MALong
    /\ At(indicators.ema120, 1) # At(indicators.closes, 1)
    /\ At(indicators.ema120, MALong) # At(indicators.closes, MALong)
    /\ At(indicators.ema120, MALong) # At(indicators.ema120, MALong - 1)

\* C22: a breakout scanner called with lookback = N returns only bars among
\* the most recent N of the series: breakoutBarIndex >= length - N.
C22_OnlyMostRecentBars ==
    /\ IsSignal(breakoutUp) =>
           breakoutUp.breakoutBarIndex >= Len(klines) - SCAN_LOOKBACK_BARS
    /\ IsSignal(breakoutDown) =>
           breakoutDown.breakoutBarIndex >= Len(klines) - SCAN_LOOKBACK_BARS

\* scanBreakoutUp returned a bar at or above the index floor lookback that is
\* older than the most recent lookback bars
C22_OlderBarReturned ==
    /\ IsSignal(breakoutUp)
    /\ breakoutUp.breakoutBarIndex >= SCAN_LOOKBACK_BARS
    /\ breakoutUp.breakoutBarIndex < Len(klines) - SCAN_LOOKBACK_BARS

----
\* llm/deepseekClient.ts: DeepSeekClient.chat, one call followed through its
\* retry loop.  A state is taken at each await: before a request is posted
\* ("post"), during the back-off sleep ("sleep"), and after the call ended
\* ("returned", "thrown").

maxRetriesMore == 3 + 1
maxRetries == 3

\* What one httpClient.post can do: resolve with a body whose choices are
\* absent or a list of message contents, or reject with an error object.
\* Absent properties are Null; a message is kept as its list of words.
ChoiceLists ==
    {Null, [items |-> <<>>], [items |-> <<"hold">>], [items |-> <<"buy", "hold">>]}
ErrorCodes == {Null, [code |-> "ECONNABORTED"], [code |-> "ECONNREFUSED"]}
ErrorMessages ==
    {Null,
     [words |-> <<"timeout", "of", "120000ms", "exceeded">>],
     [words |-> <<"Request", "aborted">>],
     [words |-> <<"Request", "failed", "with", "status", "code">>]}
ErrorResponses == {Null, [status |-> 429], [status |-> 500]}
PostOutcomes ==
    {[ok |-> TRUE, choices |-> c] : c \in ChoiceLists}
    \cup {[ok |-> FALSE, code |-> c, message |-> t, response |-> r] :
              c \in ErrorCodes, t \in ErrorMessages, r \in ErrorResponses}

\* error.message?.includes(word)
MessageIncludes(message, word) ==
    message # Null /\ \E i \in DOMAIN message.words : message.words[i] = word

\* the condition under which the catch block takes the retry branch
IsNetworkError(error) ==
    \/ error.code = [code |-> "ECONNABORTED"]
    \/ MessageIncludes(error.message, "aborted")
    \/ MessageIncludes(error.message, "timeout")

\* the error thrown inside the try block for a body without choices
EmptyResponseError ==
    [ok |-> FALSE, code |-> Null, message |-> [words |-> <<"API", "empty">>],
     response |-> Null]

\* the update and test of the for loop
NextAttempt(c) ==
    IF c.attempt + 1 <= maxRetries
    THEN [c EXCEPT !.pc = "post", !.attempt = c.attempt + 1]
    ELSE [c EXCEPT !.pc = "thrown", !.attempt = c.attempt + 1,
                   !.result = [thrown |-> "lastError"]]

\* the catch block
HandleFailure(c, error) ==
    The({IF IsNetworkError(error) /\ c.attempt < maxRetries
         THEN [d EXCEPT !.pc = "sleep", !.waitTime = c.attempt * 2000]
         ELSE IF error.response # Null
         THEN [d EXCEPT !.pc = "thrown",
                        !.result = [thrown |-> "api", status |-> error.response.status]]
         ELSE IF c.attempt = maxRetries
         THEN [d EXCEPT !.pc = "thrown", !.result = [thrown |-> "retried"]]
         ELSE NextAttempt(d) :
         d \in {[c EXCEPT !.lastError = error]}})

\* the try block, once the request has settled
HandleOutcome(c, outcome) ==
    IF outcome.ok
    THEN IF outcome.choices # Null /\ Len(outcome.choices.items) > 0
         THEN [c EXCEPT !.pc = "returned",
                        !.result = [content |-> outcome.choices.items[1]]]
         ELSE HandleFailure(c, EmptyResponseError)
    ELSE HandleFailure(c, outcome)

InitChat ==
    /\ chat = [pc |-> "post", attempt |-> 1, requests |-> 0, lastPost |-> Null,
               lastError |-> Null, waitTime |-> 0, result |-> Null]
    /\ IdleUpdater /\ IdleScanners /\ IdleReport
    /\ IdlePercentile /\ IdleScoring /\ IdleWeights /\ IdleExtract /\ IdleTA

\* one request is posted and settles
ChatPost ==
    /\ chat.pc = "post"
    /\ \E outcome \in PostOutcomes :
          chat' = HandleOutcome([chat EXCEPT !.requests = chat.requests + 1,
                                             !.lastPost = outcome], outcome)
    /\ UNCHANGED <<pctArray, pctCalls, allAssetsFactors, rawFactors, factorScores,
                   rules, assetScores, targetWeights, allocation, marketData, computed,
                   klines, indicators, breakoutUp, breakoutDown, retestLong, retestShort,
                   technicalSignals, lastScan, factorSnapshots, portfolioSuggestions,
                   suggestionResult, updater, scanners, report>>

\* the back-off timer fires and the loop continues
ChatWake ==
    /\ chat.pc = "sleep"
    /\ chat' = NextAttempt(chat)
    /\ UNCHANGED <<pctArray, pctCalls, allAssetsFactors, rawFactors, factorScores,
                   rules, assetScores, targetWeights, allocation, marketData, computed,
                   klines, indicators, breakoutUp, breakoutDown, retestLong, retestShort,
                   technicalSignals, lastScan, factorSnapshots, portfolioSuggestions,
                   suggestionResult, updater, scanners, report>>

NextChat ==
    \/ ChatPost
    \/ ChatWake

SpecChat == InitChat /\ [][NextChat]_vars

\* The request has a 120 s timeout and the back-off timer is finite, so a
\* pending step of the call is eventually taken
SpecChatFair == SpecChat /\ WF_vars(NextChat)

ChatEnded == chat.pc \in {"returned", "thrown"}

\* C23: every call of chat ends, returning the content of the first choice of
\* the response it just received or throwing, and it never posts more than
\* 3 requests, whatever the API answers
C23_TerminatesWithinThreeRequests ==
    /\ [](chat.requests <= 3)
    /\ [](chat.pc = "returned" =>
             /\ chat.lastPost.ok
             /\ chat.result = [content |-> chat.lastPost.choices.items[1]])
    /\ <>ChatEnded

\* a call that used all three requests and then ended by throwing
C23_Witness ==
    /\ chat.requests = 3
    /\ chat.pc = "thrown"

\* C24: a request that is not the first one of the call is posted only after
\* a network-type failure of the request before it
C24_RetryOnlyAfterNetworkError ==
    [][(chat.requests >= 1 /\ chat'.requests > chat.requests)
           => IsNetworkError(chat.lastError)]_vars

\* a second request was posted although the first one was answered with a
\* body without choices
C24_RetriedAfterEmptyResponse ==
    /\ chat.requests = 2
    /\ chat.lastError = EmptyResponseError
    /\ chat.pc = "post"

----
\* calculateTargetWeight with negative weights allowed (SpecWeights)

\* The asset at position i matched a band first whose targetWeight is negative
NegativeBandFirst(i) ==
    /\ FirstMatch(rules.weightThresholds, assetScores[i].scores.totalScore) # 0
    /\ RLt(rules.weightThresholds[
               FirstMatch(rules.weightThresholds,
                          assetScores[i].scores.totalScore)].targetWeight, RInt(0))

\* C25: with allowNegativeWeights set, an asset whose first matching band has a
\* negative targetWeight gets exactly that negative weight from
\* calculateTargetWeight
C25_NegativeWeightReturned ==
    \A i \in DOMAIN targetWeights :
        (rules.allowNegativeWeights /\ NegativeBandFirst(i)) =>
            targetWeights[i] =
                rules.weightThresholds[
                    FirstMatch(rules.weightThresholds,
                               assetScores[i].scores.totalScore)].targetWeight

\* negative weights were allowed, the first matching band was negative, and
\* calculateTargetWeight returned 0 because of minWeightThreshold
C25_NegativeWeightZeroed ==
    \E i \in DOMAIN targetWeights :
        /\ rules.allowNegativeWeights
        /\ NegativeBandFirst(i)
        /\ RLt(RInt(0), rules.minWeightThreshold)
        /\ targetWeights[i] = RInt(0)

----
\* The volume window of calculateBreakoutScore (SpecSignals)

BreakoutsFound == {s \in {breakoutUp, breakoutDown} : IsSignal(s)}

\* C26: for a breakout with at least VolumeLookback bars before it, the bars
\* whose mean volume divides the breakout bar's volume are exactly the
\* VolumeLookback bars that precede the breakout bar
C26_WindowIsTrailingBars ==
    \A s \in BreakoutsFound :
        s.breakoutBarIndex >= VolumeLookback =>
            /\ Len(VolumeWindow(klines, s.breakoutBarIndex)) = VolumeLookback
            /\ VolumeWindow(klines, s.breakoutBarIndex) =
                   Slice(klines, s.breakoutBarIndex - VolumeLookback, s.breakoutBarIndex)

\* a breakout whose averaged window holds one bar more than VolumeLookback and
\* ends with the breakout bar itself
C26_WindowIncludesBreakoutBar ==
    \E s \in BreakoutsFound :
        /\ s.breakoutBarIndex >= VolumeLookback
        /\ Len(VolumeWindow(klines, s.breakoutBarIndex)) = VolumeLookback + 1
        /\ VolumeWindow(klines, s.breakoutBarIndex)[VolumeLookback + 1] =
               At(klines, s.breakoutBarIndex)

----
\* scripts/updateData.ts: the loop over the assets.  A state is taken at each
\* await of the loop body: before fetchHistoricalData ("history"), before
\* fetchCurrentMarketData ("current"), before the rows are written ("store")
\* and during the 6-second timer ("delay"); "done" after the loop.

MaxUpdateAssets == 3

\* the start of the next iteration, or the end of the loop
NextAsset(u) ==
    IF u.index < u.assets
    THEN [u EXCEPT !.pc = "history", !.index = u.index + 1]
    ELSE [u EXCEPT !.pc = "done"]

InitUpdate ==
    /\ \E n \in 1..MaxUpdateAssets :
          updater = [assets |-> n, index |-> 1, pc |-> "history", lastEvent |-> "start",
                     providerCalls |-> 0, currentMarketData |-> FALSE,
                     stored |-> {}, successCount |-> 0, errorCount |-> 0]
    /\ IdleChat /\ IdleScanners /\ IdleReport
    /\ IdlePercentile /\ IdleScoring /\ IdleWeights /\ IdleExtract /\ IdleTA

\* dataProvider.fetchHistoricalData for the current asset: rows, no rows, or
\* a thrown error
FetchHistoricalData ==
    /\ updater.pc = "history"
    /\ \E outcome \in {"rows", "empty", "throws"} :
          \E u \in {[updater EXCEPT !.lastEvent = "provider",
                                    !.providerCalls = updater.providerCalls + 1,
                                    !.currentMarketData = FALSE]} :
              updater' =
                  IF outcome = "rows" THEN [u EXCEPT !.pc = "current"]
                  ELSE NextAsset([u EXCEPT !.errorCount = u.errorCount + 1])
    /\ UNCHANGED <<pctArray, pctCalls, allAssetsFactors, rawFactors, factorScores,
                   rules, assetScores, targetWeights, allocation, marketData, computed,
                   klines, indicators, breakoutUp, breakoutDown, retestLong, retestShort,
                   technicalSignals, lastScan, factorSnapshots, portfolioSuggestions,
                   suggestionResult, chat, scanners, report>>

\* dataProvider.fetchCurrentMarketData for the same asset; its error is
\* caught by the inner try
FetchCurrentMarketData ==
    /\ updater.pc = "current"
    /\ \E fetched \in BOOLEAN :
          updater' = [updater EXCEPT !.pc = "store", !.lastEvent = "provider",
                                     !.providerCalls = updater.providerCalls + 1,
                                     !.currentMarketData = fetched]
    /\ UNCHANGED <<pctArray, pctCalls, allAssetsFactors, rawFactors, factorScores,
                   rules, assetScores, targetWeights, allocation, marketData, computed,
                   klines, indicators, breakoutUp, breakoutDown, retestLong, retestShort,
                   technicalSignals, lastScan, factorSnapshots, portfolioSuggestions,
                   suggestionResult, chat, scanners, report>>

\* the rows of the asset are created or updated; a database error is caught
\* by the outer try
StoreRows ==
    /\ updater.pc = "store"
    /\ \E written \in BOOLEAN :
          updater' =
              IF written
              THEN [updater EXCEPT !.pc = "delay",
                                   !.stored = updater.stored \cup
                                       {<<updater.index, updater.currentMarketData>>},
                                   !.successCount = updater.successCount + 1]
              ELSE NextAsset([updater EXCEPT !.errorCount = updater.errorCount + 1])
    /\ UNCHANGED <<pctArray, pctCalls, allAssetsFactors, rawFactors, factorScores,
                   rules, assetScores, targetWeights, allocation, marketData, computed,
                   klines, indicators, breakoutUp, breakoutDown, retestLong, retestShort,
                   technicalSignals, lastScan, factorSnapshots, portfolioSuggestions,
                   suggestionResult, chat, scanners, report>>

\* the 6-second timer fires
DelayElapsed ==
    /\ updater.pc = "delay"
    /\ updater' = NextAsset([updater EXCEPT !.lastEvent = "delay"])
    /\ UNCHANGED <<pctArray, pctCalls, allAssetsFactors, rawFactors, factorScores,
                   rules, assetScores, targetWeights, allocation, marketData, computed,
                   klines, indicators, breakoutUp, breakoutDown, retestLong, retestShort,
                   technicalSignals, lastScan, factorSnapshots, portfolioSuggestions,
                   suggestionResult, chat, scanners, report>>

NextUpdate ==
    \/ FetchHistoricalData
    \/ FetchCurrentMarketData
    \/ StoreRows
    \/ DelayElapsed

SpecUpdate == InitUpdate /\ [][NextUpdate]_vars

\* C27: the data provider is called for an asset after the first one only when
\* the 6-second delay has elapsed since the provider was last called
C27_DelayBeforeNextAsset ==
    [][(updater.pc = "history" /\ updater.index > 1
            /\ updater'.providerCalls > updater.providerCalls)
           => updater.lastEvent = "delay"]_vars

\* the loop stands before the provider call of a later asset right after a
\* provider call of the asset before it, whose processing ended as a failure
C27_BackToBack ==
    /\ updater.pc = "history"
    /\ updater.index > 1
    /\ updater.lastEvent = "provider"
    /\ updater.errorCount > 0

----
\* ta/scanSignals.ts: invocations of scanAssetTimeframe for one (asset,
\* timeframe) that run at the same time.  Each invocation is followed through
\* its awaits: fetchKlines ("fetch"), technicalSignal.findFirst ("find"),
\* technicalSignal.update or create ("update", "create"); "done" after it.

NumScanners == 2

\* the signalData a run can reach the save step with
SignalDatas ==
    {ScanResults[fetched].signalData :
        fetched \in {f \in FetchedSeries : ScanResults[f].outcome = "signal"}}

\* technicalSignal.update({where: {id}, data})
UpdateSignal(rows, id, signalData) ==
    [i \in DOMAIN rows |->
        IF rows[i].id = id THEN [id |-> id, data |-> signalData] ELSE rows[i]]

\* technicalSignal.create({data})
CreateSignal(rows, signalData) ==
    Append(rows, [id |-> Len(rows) + 1, data |-> signalData])

\* The table is empty or holds the record an earlier run left
InitConcurrentScan ==
    /\ technicalSignals \in
           {<<>>} \cup {<<[id |-> 1, data |-> d]>> : d \in SignalDatas}
    /\ lastScan = NoResult
    /\ scanners = [p \in 1..NumScanners |->
                      [pc |-> "fetch", signalData |-> Null, existing |-> Null]]
    /\ IdleChat /\ IdleUpdater /\ IdleReport
    /\ IdlePercentile /\ IdleScoring /\ IdleWeights /\ IdleExtract
    /\ IdleSignals /\ IdlePortfolio

\* fetchKlines resolves and the series is scanned; without a signal the
\* invocation returns
ScannerFetch(p) ==
    /\ scanners[p].pc = "fetch"
    /\ \E fetched \in FetchedSeries :
          \E scan \in {ScanResults[fetched]} :
              scanners' =
                  [scanners EXCEPT ![p] =
                      IF scan.outcome = "signal"
                      THEN [pc |-> "find", signalData |-> scan.signalData,
                            existing |-> Null]
                      ELSE [pc |-> "done", signalData |-> Null, existing |-> Null]]
    /\ UNCHANGED <<pctArray, pctCalls, allAssetsFactors, rawFactors, factorScores,
                   rules, assetScores, targetWeights, allocation, marketData, computed,
                   klines, indicators, breakoutUp, breakoutDown, retestLong, retestShort,
                   technicalSignals, lastScan, factorSnapshots, portfolioSuggestions,
                   suggestionResult, chat, updater, report>>

\* findFirst resolves; the invocation decides on update, create or skip
ScannerFind(p) ==
    /\ scanners[p].pc = "find"
    /\ \E existing \in {FindFirstSignal(technicalSignals)} :
          scanners' =
              [scanners EXCEPT ![p] =
                  [pc |-> IF existing = Null THEN "create"
                          ELSE IF scanners[p].signalData.breakoutBarTime >
                                      existing.data.breakoutBarTime
                          THEN "update" ELSE "done",
                   signalData |-> scanners[p].signalData,
                   existing |-> existing]]
    /\ UNCHANGED <<pctArray, pctCalls, allAssetsFactors, rawFactors, factorScores,
                   rules, assetScores, targetWeights, allocation, marketData, computed,
                   klines, indicators, breakoutUp, breakoutDown, retestLong, retestShort,
                   technicalSignals, lastScan, factorSnapshots, portfolioSuggestions,
                   suggestionResult, chat, updater, report>>

\* update or create resolves
ScannerWrite(p) ==
    /\ scanners[p].pc \in {"update", "create"}
    /\ technicalSignals' =
           IF scanners[p].pc = "update"
           THEN UpdateSignal(technicalSignals, scanners[p].existing.id,
                             scanners[p].signalData)
           ELSE CreateSignal(technicalSignals, scanners[p].signalData)
    /\ scanners' = [scanners EXCEPT ![p].pc = "done"]
    /\ UNCHANGED <<pctArray, pctCalls, allAssetsFactors, rawFactors, factorScores,
                   rules, assetScores, targetWeights, allocation, marketData, computed,
                   klines, indicators, breakoutUp, breakoutDown, retestLong, retestShort,
                   lastScan, factorSnapshots, portfolioSuggestions,
                   suggestionResult, chat, updater, report>>

NextConcurrentScan ==
    \E p \in 1..NumScanners :
        \/ ScannerFetch(p)
        \/ ScannerFind(p)
        \/ ScannerWrite(p)

SpecConcurrentScan == InitConcurrentScan /\ [][NextConcurrentScan]_vars

\* C28: the table of the (asset, timeframe) never holds more than one record,
\* however the steps of the invocations interleave
C28_AtMostOneRecord == Len(technicalSignals) <= 1

\* both invocations found no record, and both created one
C28_TwoRecords ==
    /\ Len(technicalSignals) = 2
    /\ \A p \in 1..NumScanners :
          scanners[p].pc = "done" /\ scanners[p].existing = Null
                                  /\ scanners[p].signalData # Null

----
\* The price levels of the signals (SpecSignals)

SignalsFound ==
    {s \in {breakoutUp, breakoutDown, retestLong, retestShort} : IsSignal(s)}

\* the cluster a signal was built from
ClusterOf(s) ==
    IF s.signalType \in {"retest_long", "retest_short"} THEN s.parentBreakout.clusterInfo
    ELSE s.clusterInfo

\* C29: every long signal, breakout or retest, built from a cluster with
\* positive clusterMean has stopLoss < entryPrice < takeProfit1 < takeProfit2,
\* and every short signal has takeProfit2 < takeProfit1 < entryPrice < stopLoss
C29_PriceLevelsOrdered ==
    \A s \in SignalsFound :
        JGt(ClusterOf(s).clusterMean, FinInt(0)) =>
            IF s.direction = "long"
            THEN /\ JLt(s.stopLoss, s.entryPrice)
                 /\ JLt(s.entryPrice, s.takeProfit1)
                 /\ JLt(s.takeProfit1, s.takeProfit2)
            ELSE /\ JLt(s.takeProfit2, s.takeProfit1)
                 /\ JLt(s.takeProfit1, s.entryPrice)
                 /\ JLt(s.entryPrice, s.stopLoss)

\* a long retest whose entry is the lower edge of its cluster, the lowest
\* close a long retest accepts
C29_Witness ==
    /\ IsSignal(retestLong)
    /\ retestLong.direction = "long"
    /\ JGt(ClusterOf(retestLong).clusterMean, FinInt(0))
    /\ retestLong.entryPrice = ClusterOf(retestLong).clusterLow

\* a short retest was found as well
C29_ShortRetestFound ==
    /\ IsSignal(retestShort)
    /\ retestShort.direction = "short"

----
\* The allocation table of the report (SpecPortfolio)

\* the list is in descending order of totalScore
ScoreDescending(allocations) ==
    \A i \in DOMAIN allocations : \A j \in DOMAIN allocations :
        i < j => RLe(allocations[j].totalScore, allocations[i].totalScore)

\* C30: the allocation table of a written report lists the assets in the order
\* in which the portfolio was obtained, which is descending totalScore;
\* building the prompt does not reorder portfolio.allocations
C30_TableInObtainedOrder ==
    (report # NoResult /\ report.written) =>
        /\ report.table = AssetOrder(report.obtained)
        /\ ScoreDescending(report.obtained)

\* a report whose table lists a lower-scored asset before a higher-scored one,
\* while the prompt's asset list was in the obtained order
C30_TableReordered ==
    /\ report # NoResult /\ report.written
    /\ ScoreDescending(report.obtained)
    /\ report.assetList = AssetOrder(report.obtained)
    /\ report.table # AssetOrder(report.obtained)
====
